---- MODULE Spec2Model ----
(***************************************************************************)
(* A model of the rule synchronisation engine of cursor-rules-manager      *)
(* (src/src/rulesManager.ts, with the exclusion predicate of               *)
(* gitignoreManager.ts).                                                   *)
(*                                                                         *)
(* Strings the code takes apart are modelled at the granularity at which   *)
(* the code inspects them:                                                 *)
(*   - a file or folder name is the sequence of its dot-separated parts    *)
(*     ("a.md" is <<"a","md">>, "core" is <<"core">>);                     *)
(*   - a path is the sequence of its names (split at path.sep);            *)
(*   - a file content is the sequence of its characters.                   *)
(* A file tree is a function from the paths of its files to contents.      *)
(***************************************************************************)
EXTENDS Integers, Sequences, FiniteSets, TLC

VARIABLES
    config,       \* RulesManager.config: rulesRepoUrl, globalRulesPath, excludePatterns
    local,        \* files under <workspaceRoot>/<globalRulesPath>, by relative path
    remote,       \* files under <globalRulesPath> at the head of the rules repository
    clone,        \* files under <tempDir>/<globalRulesPath> of the call in flight
    cloneBase,    \* what git cloned: the commit the working copy is based on
    pc,           \* position of the call in flight
    op,           \* which public operation is in flight: "sync", "push", "pull", "check"
    localFiles,   \* FingerprintMap of the local tree (syncRules/pushRules)
    repoFiles,    \* FingerprintMap of the clone
    toCopy,       \* sequence of relative paths to copy into the clone
    toDelete,     \* sequence of relative paths classified as deletion candidates
    stats,        \* SyncStats of the call: added, modified, deleted, total
    remoteAtStart,\* the remote tree when the call in flight started
    quiet,        \* the previous call was a successful syncRules and no local
                  \* edit and no other writer came after it
    wasQuiet,     \* the value of quiet when the call in flight started
    info,         \* the FirstSyncInfo a checkFirstSyncStatus call returns
    \* the diff applied to a pair of FingerprintMaps
    dLocal,       \* localFiles
    dRepo,        \* repoFiles
    dChange,      \* the ChangeSet computed from them
    dStats,       \* the SyncStats built from its counters
    dpc,          \* "input" before the diff, "diffed" after
    \* one copy of one rule file
    fRel,         \* the file's path relative to the rule root
    fPatterns,    \* config.excludePatterns
    fSrc,         \* content of the source file
    fDstExists,   \* whether the destination existed before the copy
    fDst,         \* content of the destination before the copy (<<>> if none)
    fOut,         \* content of the destination after the copy
    fBranch,      \* the write of copyFileForSync that ran: "merge", "fallback", "copy"
    fpc,          \* "ready", or the copy that has run
    \* one run of withRetry
    rcfg,         \* the RetryConfig
    rpc,          \* "loop", "waiting", "returned", "thrown"
    attempt,      \* the loop counter
    rLog,         \* the error message of every invocation so far, "ok" for a success
    rDelays,      \* the delays waited so far
    rThrown,      \* what the run threw: <<k, message>> for the error of invocation k
    \* one scan of one rule tree, and the exclusion predicate on its paths
    sExists,      \* whether the rule root exists
    sTree,        \* the files under the rule root, by relative path
    sPatterns,    \* config.excludePatterns
    sRules,       \* the RulesStructure getRulesStructure returned
    sSyncable,    \* the rules getSyncableRules returned
    sExcluded,    \* the paths, relative to the workspace, shouldExclude flagged
    spc,          \* "ready" before the scan, "scanned" after
    xpc,          \* "ready" before shouldExclude is applied, "checked" after
    \* one first-sync assessment of a pair of trees
    aLocal,       \* the files under the local rule root
    aRemote,      \* the files under the rule root of the rules repository
    aCloned,      \* whether git.clone succeeds
    aInfo,        \* the FirstSyncInfo checkFirstSyncStatus returned
    apc,          \* "ready" before the assessment, "assessed" once it has returned
    \* the calls of one extension host on one workspace, step by step
    wcfg,         \* RulesManager.config
    wretry,       \* RulesManager.retryConfig
    calls,        \* per call: kind, origin, pc, attempt, waiting, tempDir, behind,
                  \* toCopy, copied, log, result
    net,          \* what a network git call meets: "up", "timeout", "denied"
    tempDirs,     \* the temporary directories on disk, each with the call that cloned into it
    timers,       \* the pending setTimeout callbacks that remove a temporary directory
    now,          \* Date.now()
    ruleFiles,    \* the number of syncable files under the local rule root
    \* one run of ensureGitignore on one .gitignore
    gExists,      \* whether <workspaceRoot>/.gitignore exists
    gContent,     \* its content, as the lines content.split('\n') gives
    gPatterns,    \* excludePatterns
    gOut,         \* the content ensureGitignore wrote
    gpc,          \* "ready" before the run, "written" after
    \* one run of safeFirstSync on one assessed workspace
    zLocal,       \* the files under the local rule root
    zRemote,      \* the files under the rule root of the rules repository
    zCloned,      \* whether the git.clone of checkFirstSyncStatus succeeds
    zDirExists,   \* whether the local rule directory exists
    zOptions,     \* the SafeSyncOptions: mergeStrategy, createBackup
    zInfo,        \* the FirstSyncInfo checkFirstSyncStatus returned
    zRun,         \* what the run did: the operation it called, backup, mkdir
    zResult,      \* what it returned or threw
    zpc,          \* "ready" before the run, "done" after
    \* syncRules and pushRules on one disk
    kDisk,        \* the files on disk, by absolute path
    kRemote,      \* the files under the rule root of the rules repository
    kBefore,      \* the local rule tree before the first call
    kOp,          \* the call in flight: "sync" or "push"
    kpc,          \* its position
    kCalls,       \* the number of calls started
    \* pullRules, then syncRules
    vLocal,       \* the files under the local rule root
    vRemote,      \* the files under the rule root of the rules repository
    vPatterns,    \* config.excludePatterns
    vBefore,      \* the local rule tree before the pull
    vPulled,      \* the stats the pull returned
    vStats,       \* the stats the sync returned
    vpc,          \* "ready", "pulled", "synced"
    \* safeFirstSync on one disk, from one await to the next
    bPath,        \* config.globalRulesPath
    bDisk,        \* the files of the workspace, by absolute path
    bRemote,      \* the files under the rule root of the rules repository
    bCloned,      \* whether the git.clone of checkFirstSyncStatus succeeds
    bOptions,     \* the SafeSyncOptions
    bBefore,      \* the local rule tree before the call
    bInfo,        \* the FirstSyncInfo checkFirstSyncStatus returned
    bSteps,       \* what the call has done so far, in order
    bpc           \* "ready", "assessed", "backedUp", "done", "thrown"

diffVars == <<dLocal, dRepo, dChange, dStats, dpc>>

copyVars == <<fRel, fPatterns, fSrc, fDstExists, fDst, fOut, fBranch, fpc>>

retryVars == <<rcfg, rpc, attempt, rLog, rDelays, rThrown>>

scanVars == <<sExists, sTree, sPatterns, sRules, sSyncable, sExcluded, spc, xpc>>

firstVars == <<aLocal, aRemote, aCloned, aInfo, apc>>

flowVars == <<wcfg, wretry, calls, net, tempDirs, timers, now, ruleFiles>>

ignoreVars == <<gExists, gContent, gPatterns, gOut, gpc>>

resolveVars == <<zLocal, zRemote, zCloned, zDirExists, zOptions, zInfo, zRun, zResult, zpc>>

lastVars == <<ignoreVars, resolveVars>>

diskVars == <<kDisk, kRemote, kBefore, kOp, kpc, kCalls>>

convVars == <<vLocal, vRemote, vPatterns, vBefore, vPulled, vStats, vpc>>

backupVars == <<bPath, bDisk, bRemote, bCloned, bOptions, bBefore, bInfo, bSteps, bpc>>

endVars == <<diskVars, convVars, backupVars>>

laterVars == <<flowVars, lastVars, endVars>>

syncVars == <<config, local, remote, clone, cloneBase, pc, op, localFiles,
              repoFiles, toCopy, toDelete, stats, remoteAtStart, quiet, wasQuiet, info>>

-----------------------------------------------------------------------------
(* Names and paths *)

MdExt == "md"
MdcExt == "mdc"
DotCursor == <<"", "cursor">>          \* the name ".cursor"
RulesDir == <<"rules">>
DefaultRulesPath == <<DotCursor, RulesDir>>
UpDir == <<"", "", "">>                \* the name ".."
\* path.relative(workspaceRoot, tempDir): the clone lies outside the workspace
TempDirFromWorkspace == <<UpDir, <<"tmp">>, <<"cursor-rules-tmp">>>>

IsPrefix(s, t) == Len(s) <= Len(t) /\ SubSeq(t, 1, Len(s)) = s

\* Array.prototype.includes on a sequence
SeqIncludes(seq, x) == \E i \in 1..Len(seq) : seq[i] = x

\* name.endsWith('.' + ext), ext without dots
NameEndsWithDot(name, ext) == Len(name) >= 2 /\ name[Len(name)] = ext

\* name.includes('.')
NameHasDot(name) == Len(name) >= 2

-----------------------------------------------------------------------------
(* File trees *)

EmptyTree == [p \in {} |-> <<>>]

Exists(tree, p) == p \in DOMAIN tree

WriteFile(tree, p, c) ==
    [q \in (DOMAIN tree) \cup {p} |-> IF q = p THEN c ELSE tree[q]]

RemoveFile(tree, p) == [q \in (DOMAIN tree) \ {p} |-> tree[q]]

\* fs.readdirSync(dir): the names of the entries of directory dir
ReadDir(tree, dir) ==
    { p[Len(dir) + 1] : p \in { q \in DOMAIN tree : IsPrefix(dir, q) /\ Len(q) > Len(dir) } }

\* Dirent.isDirectory() of the entry at path p
IsDirectory(tree, p) == \E q \in DOMAIN tree : IsPrefix(p, q) /\ Len(q) > Len(p)

-----------------------------------------------------------------------------
(* File contents and the frontmatter pattern *)

Dash == "-"
Marker == <<Dash, Dash, Dash>>

\* the characters of s from position i on
Drop(s, i) == SubSeq(s, i, Len(s))

\* positions p >= 4 at which the closing marker can start
ClosingMarkers(s) == { p \in 4..(Len(s) - 2) : SubSeq(s, p, p + 2) = Marker }

\* content.match(/^(---[\s\S]*?---)([\s\S]*)/): the lazy group ends at the first
\* closing marker, the second group takes the rest; <<>> when there is no match
\* (a match is the pair <<metadata block, body>>, never <<>>)
MatchFrontmatter(s) ==
    IF Len(s) >= 3 /\ SubSeq(s, 1, 3) = Marker /\ ClosingMarkers(s) # {}
    THEN LET p == CHOOSE q \in ClosingMarkers(s) : \A r \in ClosingMarkers(s) : q <= r
         IN  <<SubSeq(s, 1, p + 2), Drop(s, p + 3)>>
    ELSE <<>>

\* copyFile keeping the metadata block of an existing destination
CopyFileMerging(srcContent, dstExists, dstContent) ==
    IF dstExists /\ MatchFrontmatter(srcContent) # <<>> /\ MatchFrontmatter(dstContent) # <<>>
    THEN MatchFrontmatter(dstContent)[1] \o MatchFrontmatter(srcContent)[2]
    ELSE srcContent

\* fs.copyFileSync(source, destination) in copyFile: the destination gets the
\* source's bytes whatever it held before
CopyFile(srcContent, dstExists, dstContent) == srcContent

\* destination.includes(path.sep + pattern + path.sep): a folder of the absolute
\* destination path is named pattern
IncludesSepPatternSep(dstAbs, pattern) ==
    \E i \in 1..(Len(dstAbs) - 1) : dstAbs[i] = pattern

\* destination.includes(path.sep + pattern + '.'): a name of the absolute
\* destination path starts with pattern followed by a dot
IncludesSepPatternDot(dstAbs, pattern) ==
    \E i \in 1..Len(dstAbs) :
        Len(dstAbs[i]) > Len(pattern) /\ SubSeq(dstAbs[i], 1, Len(pattern)) = pattern

\* the test for a global rule that looks at folders only
IsGlobalRuleFoldersOnly(patterns, dstAbs) ==
    ~ \E k \in 1..Len(patterns) : IncludesSepPatternSep(dstAbs, patterns[k])

IsGlobalRule(patterns, dstAbs) ==
    ~ \E k \in 1..Len(patterns) :
        IncludesSepPatternSep(dstAbs, patterns[k]) \/ IncludesSepPatternDot(dstAbs, patterns[k])

\* source.endsWith('.md') || source.endsWith('.mdc')
IsMarkdown(srcAbs) ==
    Len(srcAbs) >= 1 /\ (NameEndsWithDot(srcAbs[Len(srcAbs)], MdExt)
                         \/ NameEndsWithDot(srcAbs[Len(srcAbs)], MdcExt))

\* the condition of the merge branch of copyFileForSync
TakesMergeBranch(patterns, srcAbs, dstAbs, dstExists) ==
    IsGlobalRule(patterns, dstAbs) /\ IsMarkdown(srcAbs) /\ dstExists

\* what the merge branch writes: the destination's metadata block and the
\* source's body when both match, the source's bytes otherwise
MergeOrFallback(srcContent, dstContent) ==
    LET matchSrc == MatchFrontmatter(srcContent)
        matchDest == MatchFrontmatter(dstContent)
    IN  IF matchSrc # <<>> /\ matchDest # <<>>
        THEN matchDest[1] \o matchSrc[2]
        ELSE srcContent

\* copyFileForSync(source, destination): the content of destination afterwards
CopyFileForSync(patterns, srcAbs, dstAbs, srcContent, dstExists, dstContent) ==
    IF TakesMergeBranch(patterns, srcAbs, dstAbs, dstExists)
    THEN MergeOrFallback(srcContent, dstContent)
    ELSE srcContent

\* which of the three writes of copyFileForSync runs
WriteBranch(patterns, srcAbs, dstAbs, srcContent, dstExists, dstContent) ==
    IF TakesMergeBranch(patterns, srcAbs, dstAbs, dstExists)
    THEN IF MatchFrontmatter(srcContent) # <<>> /\ MatchFrontmatter(dstContent) # <<>>
         THEN "merge" ELSE "fallback"
    ELSE "copy"

\* getFileHash: '' for a missing file, else the SHA-256 digest, modelled as an
\* injective tag of the content (no collisions)
GetFileHash(tree, p) == IF Exists(tree, p) THEN <<"sha256", tree[p]>> ELSE <<>>

-----------------------------------------------------------------------------
(* The exclusion predicate (GitignoreManager) *)

\* filePath.indexOf('.cursor/rules'): the first position where the names
\* ".cursor", "rules" follow one another; 0 when there is none
RulesIndex(filePath) ==
    LET hits == { i \in 1..(Len(filePath) - 1) :
                    filePath[i] = DotCursor /\ filePath[i + 1] = RulesDir }
    IN  IF hits = {} THEN 0 ELSE CHOOSE i \in hits : \A j \in hits : i <= j

\* shouldExclude(filePath, excludePatterns), filePath relative to the workspace
ShouldExclude(filePath, patterns) ==
    IF RulesIndex(filePath) = 0 THEN FALSE
    ELSE LET pathParts == Drop(filePath, RulesIndex(filePath) + 2)
         IN  IF Len(pathParts) = 0 THEN SeqIncludes(patterns, <<"">>)
             ELSE LET rootFolder == pathParts[1]
                  IN  IF Len(pathParts) = 1 /\ NameHasDot(rootFolder)
                      THEN SeqIncludes(patterns, <<rootFolder[1]>>)
                      ELSE SeqIncludes(patterns, rootFolder)

ShouldExcludeFromRulesRepo(filePath, patterns) == ShouldExclude(filePath, patterns)

-----------------------------------------------------------------------------
(* The universe of the synchronisation model *)

CoreDir == <<"core">>
MyProject == <<"my-project">>
PathCoreA == <<CoreDir, <<"a", "md">>>>           \* core/a.md
PathRootT == <<<<"t", "txt">>>>                   \* t.txt
PathLocalL == <<MyProject, <<"l", "md">>>>        \* my-project/l.md
PathCoreB == <<CoreDir, <<"b", "md">>>>           \* core/b.md
RelPaths == {PathCoreA, PathRootT, PathLocalL}

\* the order in which readdir lists the entries (and so the key order of the maps)
PathLocalA == <<MyProject, <<"a", "md">>>>        \* my-project/a.md
PathOrder ==
    <<PathCoreA, PathCoreB,
      <<CoreDir, MyProject, <<"x", "md">>>>,      \* core/my-project/x.md
      PathLocalA, PathLocalL,
      <<<<"my-project", "md">>>>,                 \* my-project.md
      PathRootT>>

ContentAX == Marker \o <<"a">> \o Marker \o <<"x">>    \* ---a---x
ContentBY == Marker \o <<"b">> \o Marker \o <<"y">>    \* ---b---y
ContentPlain == <<"z">>
ContentPool == {ContentAX, ContentBY, ContentPlain}

RepoUrl == <<"u">>
\* getDefaultConfig: excludePatterns ['my-project'], globalRulesPath '.cursor/rules';
\* the url is '' until the user sets it, and the pattern list may be set to []
Configs ==
    { [rulesRepoUrl |-> u, globalRulesPath |-> DefaultRulesPath, excludePatterns |-> e]
        : u \in {<<>>, RepoUrl}, e \in {<<>>, <<MyProject>>} }

WorkspaceRoot == <<<<"home">>, <<"ws">>>>
TempDir == <<<<"tmp">>, <<"cursor-rules-tmp">>>>

-----------------------------------------------------------------------------
(* validateConfig *)

\* s.trim() === ''
IsBlank(s) == \A i \in 1..Len(s) : s[i] = " "

ValidateConfig(cfg) ==
    /\ ~ IsBlank(cfg.rulesRepoUrl)
    /\ cfg.globalRulesPath # <<>>
    /\ Len(cfg.excludePatterns) # 0

\* the error field of validateConfig's result: which of the three messages,
\* "undefined" when isValid
ValidationError(cfg) ==
    IF IsBlank(cfg.rulesRepoUrl) THEN "no rules repo url"
    ELSE IF cfg.globalRulesPath = <<>> THEN "no global rules path"
    ELSE IF Len(cfg.excludePatterns) = 0 THEN "no exclude patterns"
    ELSE "undefined"

-----------------------------------------------------------------------------
(* getAllFilesWithHash and the diff of syncRules / pushRules *)

\* a walk that enters every folder and keeps every file
WalkFilesAll(tree, rel, fromWs, patterns) == { p \in DOMAIN tree : IsPrefix(rel, p) }

RECURSIVE WalkFiles(_, _, _, _)
\* walk(dir, rel): the relative paths that enter the map; fromWs is
\* path.relative(workspaceRoot, basePath)
WalkFiles(tree, rel, fromWs, patterns) ==
    UNION { LET relPath == Append(rel, n)
            IN  IF IsDirectory(tree, relPath)
                THEN IF SeqIncludes(patterns, n) THEN {}
                     ELSE WalkFiles(tree, relPath, fromWs, patterns)
                ELSE IF ShouldExcludeFromRulesRepo(fromWs \o relPath, patterns) THEN {}
                     ELSE {relPath}
          : n \in ReadDir(tree, rel) }

GetAllFilesWithHash(tree, fromWs, patterns) ==
    [p \in WalkFiles(tree, <<>>, fromWs, patterns) |-> GetFileHash(tree, p)]

\* the keys of a map in iteration order
RECURSIVE KeysFrom(_, _)
KeysFrom(map, i) ==
    IF i > Len(PathOrder) THEN <<>>
    ELSE (IF PathOrder[i] \in DOMAIN map THEN <<PathOrder[i]>> ELSE <<>>) \o KeysFrom(map, i + 1)

Keys(map) == KeysFrom(map, 1)

EmptyChangeSet == [toCopy |-> <<>>, toDelete |-> <<>>, added |-> 0, modified |-> 0, deleted |-> 0]

RECURSIVE LoopLocalUncounted(_, _, _, _)
\* the first loop with the modified branch lost: a changed file is not copied
LoopLocalUncounted(keys, lf, rf, cs) ==
    IF keys = <<>> THEN cs
    ELSE LET file == Head(keys)
             next == IF file \notin DOMAIN rf
                     THEN [cs EXCEPT !.added = @ + 1, !.toCopy = Append(@, file)]
                     ELSE cs
         IN  LoopLocalUncounted(Tail(keys), lf, rf, next)

RECURSIVE LoopLocal(_, _, _, _)
\* for (const file in localFiles) { ... }
LoopLocal(keys, lf, rf, cs) ==
    IF keys = <<>> THEN cs
    ELSE LET file == Head(keys)
             next == IF file \notin DOMAIN rf
                     THEN [cs EXCEPT !.added = @ + 1, !.toCopy = Append(@, file)]
                     ELSE IF lf[file] # rf[file]
                          THEN [cs EXCEPT !.modified = @ + 1, !.toCopy = Append(@, file)]
                          ELSE cs
         IN  LoopLocal(Tail(keys), lf, rf, next)

RECURSIVE LoopRepoUnguarded(_, _, _, _)
\* the second loop without its test: every file of the repository is a
\* deletion candidate
LoopRepoUnguarded(keys, lf, rf, cs) ==
    IF keys = <<>> THEN cs
    ELSE LoopRepoUnguarded(Tail(keys), lf, rf,
                           [cs EXCEPT !.deleted = @ + 1, !.toDelete = Append(@, Head(keys))])

RECURSIVE LoopRepo(_, _, _, _)
\* for (const file in repoFiles) { ... }
LoopRepo(keys, lf, rf, cs) ==
    IF keys = <<>> THEN cs
    ELSE LET file == Head(keys)
             next == IF file \notin DOMAIN lf
                     THEN [cs EXCEPT !.deleted = @ + 1, !.toDelete = Append(@, file)]
                     ELSE cs
         IN  LoopRepo(Tail(keys), lf, rf, next)

ComputeChangeSet(lf, rf) ==
    LoopRepo(Keys(rf), lf, rf, LoopLocal(Keys(lf), lf, rf, EmptyChangeSet))

RECURSIVE CopyLoop(_, _, _, _)
\* for (const file of toCopy) { ... await this.copyFileForSync(src, dst); }
CopyLoop(files, localTree, cloneTree, cfg) ==
    IF files = <<>> THEN cloneTree
    ELSE LET file == Head(files)
             src == WorkspaceRoot \o cfg.globalRulesPath \o file
             dst == TempDir \o cfg.globalRulesPath \o file
             written == CopyFileForSync(cfg.excludePatterns, src, dst, localTree[file],
                                        Exists(cloneTree, file),
                                        IF Exists(cloneTree, file) THEN cloneTree[file] ELSE <<>>)
         IN  CopyLoop(Tail(files), localTree, WriteFile(cloneTree, file, written), cfg)

RECURSIVE UnlinkAll(_, _)
UnlinkAll(files, tree) ==
    IF files = <<>> THEN tree ELSE UnlinkAll(Tail(files), RemoveFile(tree, Head(files)))

\* the change set applied with every deletion candidate unlinked first
ApplyChangeSetDeleting(cs, localTree, cloneTree, cfg) ==
    CopyLoop(cs.toCopy, localTree, UnlinkAll(cs.toDelete, cloneTree), cfg)

\* the clone after the change set is applied: syncRules and pushRules copy
\* toCopy and leave the files of toDelete where they are
ApplyChangeSet(cs, localTree, cloneTree, cfg) == CopyLoop(cs.toCopy, localTree, cloneTree, cfg)

MakeStats(a, m, d) == [added |-> a, modified |-> m, deleted |-> d, total |-> a + m + d]

-----------------------------------------------------------------------------
(* copyDirectory and the copy loop of pullRules *)

RECURSIVE CopyDirectory(_, _, _, _)
RECURSIVE CopyItems(_, _, _, _, _)
CopyItems(items, srcTree, srcDir, dstTree, dstDir) ==
    IF items = {} THEN dstTree
    ELSE LET n == CHOOSE x \in items : TRUE
             sp == Append(srcDir, n)
             dp == Append(dstDir, n)
             next == IF IsDirectory(srcTree, sp)
                     THEN CopyDirectory(srcTree, sp, dstTree, dp)
                     ELSE WriteFile(dstTree, dp,
                                    CopyFile(srcTree[sp], Exists(dstTree, dp),
                                             IF Exists(dstTree, dp) THEN dstTree[dp] ELSE <<>>))
         IN  CopyItems(items \ {n}, srcTree, srcDir, next, dstDir)

CopyDirectory(srcTree, srcDir, dstTree, dstDir) ==
    CopyItems(ReadDir(srcTree, srcDir), srcTree, srcDir, dstTree, dstDir)

\* a pull that copies every top-level entry of the clone
PulledItemsAll(cloneTree, patterns) == ReadDir(cloneTree, <<>>)

\* pullRules: the top-level entries of the clone that are copied
PulledItems(cloneTree, patterns) ==
    { n \in ReadDir(cloneTree, <<>>) : ~ SeqIncludes(patterns, n) }

\* a pull that makes the global part of the local tree a mirror of the clone
PullIntoMirroring(cloneTree, localTree, patterns) ==
    LET pulled == CopyItems(PulledItems(cloneTree, patterns), cloneTree, <<>>, localTree, <<>>)
    IN  [p \in { q \in DOMAIN pulled : q \in DOMAIN cloneTree \/ SeqIncludes(patterns, q[1]) }
            |-> pulled[p]]

PullInto(cloneTree, localTree, patterns) ==
    CopyItems(PulledItems(cloneTree, patterns), cloneTree, <<>>, localTree, <<>>)

-----------------------------------------------------------------------------
(* checkFirstSyncStatus *)

\* getFilesInDirectory(dirPath): every file below the directory, in readdir order
GetFilesInDirectory(tree) == Keys(tree)

\* path.basename
Basename(p) == p[Len(p)]

\* files.map(f => path.basename(f))
RECURSIVE Basenames(_)
Basenames(files) ==
    IF files = <<>> THEN <<>> ELSE <<Basename(Head(files))>> \o Basenames(Tail(files))

\* localNames.filter(name => remoteNames.includes(name))
RECURSIVE FilterIncluded(_, _)
FilterIncluded(localNames, remoteNames) ==
    IF localNames = <<>> THEN <<>>
    ELSE (IF SeqIncludes(remoteNames, Head(localNames)) THEN <<Head(localNames)>> ELSE <<>>)
         \o FilterIncluded(Tail(localNames), remoteNames)

NoInfo ==
    [isFirstSync |-> FALSE, hasLocalRules |-> FALSE, hasRemoteRules |-> FALSE,
     localRulesCount |-> 0, remoteRulesCount |-> 0, conflicts |-> <<>>]

\* a catch block that throws the error of the clone again
FirstSyncOutcomeRethrown(cloned) == IF cloned THEN "assessed" ELSE "thrown"

\* catch (error) { console.log(...) }: the error of the clone, or of a read of
\* the clone, is logged and the call goes on to its return statement
FirstSyncOutcome(cloned) == "assessed"

\* the FirstSyncInfo of checkFirstSyncStatus; cloned is whether git.clone
\* succeeded (a failure is caught and leaves the remote fields at their
\* initial values)
CheckFirstSyncStatus(localTree, cloned, cloneTree) ==
    LET hasLocalRules == ReadDir(localTree, <<>>) # {}
        hasRemoteRules == cloned /\ ReadDir(cloneTree, <<>>) # {}
        localNames == Basenames(GetFilesInDirectory(localTree))
        remoteNames == Basenames(GetFilesInDirectory(cloneTree))
    IN  [isFirstSync |-> ~ hasLocalRules /\ ~ hasRemoteRules,
         hasLocalRules |-> hasLocalRules,
         hasRemoteRules |-> hasRemoteRules,
         localRulesCount |-> IF hasLocalRules THEN Len(GetFilesInDirectory(localTree)) ELSE 0,
         remoteRulesCount |-> IF hasRemoteRules THEN Len(GetFilesInDirectory(cloneTree)) ELSE 0,
         conflicts |-> IF hasRemoteRules /\ hasLocalRules
                       THEN FilterIncluded(localNames, remoteNames) ELSE <<>>]

-----------------------------------------------------------------------------
(* The calls of the synchronisation engine: syncRules, pushRules, pullRules,
   checkFirstSyncStatus *)

NoStats == MakeStats(0, 0, 0)

SyncInit ==
    /\ config \in Configs
    /\ local = EmptyTree
    /\ remote = EmptyTree
    /\ clone = EmptyTree
    /\ cloneBase = EmptyTree
    /\ pc = "idle"
    /\ op = "none"
    /\ localFiles = EmptyTree
    /\ repoFiles = EmptyTree
    /\ toCopy = <<>>
    /\ toDelete = <<>>
    /\ stats = NoStats
    /\ remoteAtStart = EmptyTree
    /\ quiet = FALSE
    /\ wasQuiet = FALSE
    /\ info = NoInfo

\* the user saves or removes a rule file between two calls
LocalEdit ==
    /\ pc = "idle"
    /\ \E p \in RelPaths :
         \/ \E c \in ContentPool : local' = WriteFile(local, p, c)
         \/ Exists(local, p) /\ local' = RemoveFile(local, p)
    /\ quiet' = FALSE
    /\ UNCHANGED <<config, remote, clone, cloneBase, pc, op, localFiles, repoFiles,
                   toCopy, toDelete, stats, remoteAtStart, wasQuiet>>
    /\ UNCHANGED <<info, diffVars, copyVars, retryVars, scanVars, firstVars, laterVars>>

\* another workspace pushes to the rules repository between two calls
RemoteWrite ==
    /\ pc = "idle"
    /\ \E p \in RelPaths :
         \/ \E c \in ContentPool : remote' = WriteFile(remote, p, c)
         \/ Exists(remote, p) /\ remote' = RemoveFile(remote, p)
    /\ quiet' = FALSE
    /\ UNCHANGED <<config, local, clone, cloneBase, pc, op, localFiles, repoFiles,
                   toCopy, toDelete, stats, remoteAtStart, wasQuiet>>
    /\ UNCHANGED <<info, diffVars, copyVars, retryVars, scanVars, firstVars, laterVars>>

\* syncRules / pushRules / pullRules up to the clone: validateConfig, then
\* the clone is attempted
StartCall ==
    /\ pc = "idle"
    /\ \E o \in {"sync", "push", "pull"} : op' = o
    /\ pc' = IF ValidateConfig(config) THEN "cloning" ELSE "errored"
    /\ remoteAtStart' = remote
    /\ wasQuiet' = quiet
    /\ localFiles' = EmptyTree
    /\ repoFiles' = EmptyTree
    /\ toCopy' = <<>>
    /\ toDelete' = <<>>
    /\ stats' = NoStats
    /\ UNCHANGED <<config, local, remote, clone, cloneBase, quiet>>
    /\ UNCHANGED <<info, diffVars, copyVars, retryVars, scanVars, firstVars, laterVars>>

\* git.clone succeeded (within withRetry); no repository has the url ''
CloneOk ==
    /\ pc = "cloning"
    /\ config.rulesRepoUrl # <<>>
    /\ clone' = remote
    /\ cloneBase' = remote
    /\ pc' = CASE op = "pull" -> "pulling"
                [] op = "check" -> "assessing"
                [] OTHER -> "computing"
    /\ UNCHANGED <<config, local, remote, op, localFiles, repoFiles, toCopy, toDelete,
                   stats, remoteAtStart, quiet, wasQuiet>>
    /\ UNCHANGED <<info, diffVars, copyVars, retryVars, scanVars, firstVars, laterVars>>

\* git.clone failed for good: syncRules, pushRules and pullRules throw
CloneFail ==
    /\ pc = "cloning"
    /\ op # "check"
    /\ pc' = "errored"
    /\ UNCHANGED <<config, local, remote, clone, cloneBase, op, localFiles, repoFiles,
                   toCopy, toDelete, stats, remoteAtStart, quiet, wasQuiet>>
    /\ UNCHANGED <<info, diffVars, copyVars, retryVars, scanVars, firstVars, laterVars>>

\* syncRules / pushRules: both maps, the diff, the copy loop
ComputeAndApply ==
    /\ pc = "computing"
    /\ LET lf == GetAllFilesWithHash(local, config.globalRulesPath, config.excludePatterns)
           rf == GetAllFilesWithHash(clone, TempDirFromWorkspace \o config.globalRulesPath,
                                     config.excludePatterns)
           cs == ComputeChangeSet(lf, rf)
       IN  /\ localFiles' = lf
           /\ repoFiles' = rf
           /\ toCopy' = cs.toCopy
           /\ toDelete' = cs.toDelete
           /\ stats' = MakeStats(cs.added, cs.modified, cs.deleted)
           /\ clone' = ApplyChangeSet(cs, local, clone, config)
    /\ pc' = "committing"
    /\ UNCHANGED <<config, local, remote, cloneBase, op, remoteAtStart, quiet, wasQuiet>>
    /\ UNCHANGED <<info, diffVars, copyVars, retryVars, scanVars, firstVars, laterVars>>

\* git add, status; with staged changes commit, pull and a successful push;
\* without, nothing is committed. The call returns its stats.
CommitPushOk ==
    /\ pc = "committing"
    /\ remote' = IF clone # cloneBase THEN clone ELSE remote
    /\ pc' = "done"
    /\ UNCHANGED <<config, local, clone, cloneBase, op, localFiles, repoFiles, toCopy,
                   toDelete, stats, remoteAtStart, quiet, wasQuiet>>
    /\ UNCHANGED <<info, diffVars, copyVars, retryVars, scanVars, firstVars, laterVars>>

\* there were staged changes and git.push failed: the call throws
PushFail ==
    /\ pc = "committing"
    /\ clone # cloneBase
    /\ pc' = "errored"
    /\ UNCHANGED <<config, local, remote, clone, cloneBase, op, localFiles, repoFiles,
                   toCopy, toDelete, stats, remoteAtStart, quiet, wasQuiet>>
    /\ UNCHANGED <<info, diffVars, copyVars, retryVars, scanVars, firstVars, laterVars>>

\* pullRules: every top-level entry of the clone outside excludePatterns is
\* copied into the local rule folder, and counted as added
PullApply ==
    /\ pc = "pulling"
    /\ local' = PullInto(clone, local, config.excludePatterns)
    /\ stats' = MakeStats(Cardinality(PulledItems(clone, config.excludePatterns)), 0, 0)
    /\ pc' = "done"
    /\ UNCHANGED <<config, remote, clone, cloneBase, op, localFiles, repoFiles, toCopy,
                   toDelete, remoteAtStart, quiet, wasQuiet>>
    /\ UNCHANGED <<info, diffVars, copyVars, retryVars, scanVars, firstVars, laterVars>>

\* the call has returned or thrown; its values are gone and the temporary
\* clone is removed
Finish ==
    /\ pc \in {"done", "errored"}
    /\ pc' = "idle"
    /\ quiet' = (pc = "done" /\ op = "sync")
    /\ clone' = EmptyTree
    /\ cloneBase' = EmptyTree
    /\ op' = "none"
    /\ localFiles' = EmptyTree
    /\ repoFiles' = EmptyTree
    /\ toCopy' = <<>>
    /\ toDelete' = <<>>
    /\ stats' = NoStats
    /\ remoteAtStart' = EmptyTree
    /\ wasQuiet' = FALSE
    /\ info' = NoInfo
    /\ UNCHANGED <<config, local, remote>>
    /\ UNCHANGED <<diffVars, copyVars, retryVars, scanVars, firstVars, laterVars>>

\* checkFirstSyncStatus up to the clone: the local fields are computed and the
\* clone is attempted, whatever the configuration
CheckStart ==
    /\ pc = "idle"
    /\ op' = "check"
    /\ pc' = "cloning"
    /\ remoteAtStart' = remote
    /\ wasQuiet' = quiet
    /\ UNCHANGED <<config, local, remote, clone, cloneBase, localFiles, repoFiles, toCopy,
                   toDelete, stats, quiet, info>>
    /\ UNCHANGED <<diffVars, copyVars, retryVars, scanVars, firstVars, laterVars>>

\* checkFirstSyncStatus: git.clone failed for good; the catch block logs the
\* error and the call returns with the remote fields at their initial values
CheckCloneFail ==
    /\ pc = "cloning"
    /\ op = "check"
    /\ info' = CheckFirstSyncStatus(local, FALSE, EmptyTree)
    /\ pc' = "done"
    /\ UNCHANGED <<config, local, remote, clone, cloneBase, op, localFiles, repoFiles,
                   toCopy, toDelete, stats, remoteAtStart, quiet, wasQuiet>>
    /\ UNCHANGED <<diffVars, copyVars, retryVars, scanVars, firstVars, laterVars>>

\* checkFirstSyncStatus after the clone: the remote fields and the conflicts
Assess ==
    /\ pc = "assessing"
    /\ info' = CheckFirstSyncStatus(local, TRUE, clone)
    /\ pc' = "done"
    /\ UNCHANGED <<config, local, remote, clone, cloneBase, op, localFiles, repoFiles,
                   toCopy, toDelete, stats, remoteAtStart, quiet, wasQuiet>>
    /\ UNCHANGED <<diffVars, copyVars, retryVars, scanVars, firstVars, laterVars>>

SyncNext ==
    \/ LocalEdit
    \/ RemoteWrite
    \/ StartCall
    \/ CloneOk
    \/ CloneFail
    \/ ComputeAndApply
    \/ CommitPushOk
    \/ PushFail
    \/ PullApply
    \/ CheckStart
    \/ CheckCloneFail
    \/ Assess
    \/ Finish

vars == <<syncVars, diffVars, copyVars, retryVars, scanVars, firstVars, laterVars>>

-----------------------------------------------------------------------------
(* The diff as a function of two FingerprintMaps *)

DiffKeys == {PathCoreA, PathCoreB, PathLocalL, PathRootT}
Digests == { <<"sha256", c>> : c \in {ContentAX, ContentBY} }
FingerprintMaps == UNION { [ks -> Digests] : ks \in SUBSET DiffKeys }

DiffIdle ==
    /\ dLocal = EmptyTree
    /\ dRepo = EmptyTree
    /\ dChange = EmptyChangeSet
    /\ dStats = NoStats
    /\ dpc = "idle"

DiffInit ==
    /\ dLocal \in FingerprintMaps
    /\ dRepo \in FingerprintMaps
    /\ dChange = EmptyChangeSet
    /\ dStats = NoStats
    /\ dpc = "input"

\* the diff loops of syncRules / pushRules and the SyncStats they return
Diff ==
    /\ dpc = "input"
    /\ dChange' = ComputeChangeSet(dLocal, dRepo)
    /\ dStats' = MakeStats(dChange'.added, dChange'.modified, dChange'.deleted)
    /\ dpc' = "diffed"
    /\ UNCHANGED <<dLocal, dRepo>>
    /\ UNCHANGED <<syncVars, copyVars, retryVars, scanVars, firstVars, laterVars>>

-----------------------------------------------------------------------------
(* One copy of one rule file: copyFileForSync, copyFile, copyDirectory *)

MaxSrcTokens == 4
MaxDstTokens == 3

\* the pieces file contents are made of: the marker, a letter, white space
Tokens == {Marker, <<"a">>, <<" ">>}

RECURSIVE TextsUpTo(_)
TextsUpTo(n) ==
    IF n = 0 THEN {<<>>}
    ELSE LET shorter == TextsUpTo(n - 1)
         IN  shorter \cup { t \o k : t \in shorter, k \in Tokens }

PathRootG == <<<<"g", "mdc">>>>                      \* g.mdc
PathRootMp == <<<<"my-project", "md">>>>             \* my-project.md
PathCoreMp == <<CoreDir, <<"my-project", "md">>>>    \* core/my-project.md
CopyPaths == {PathCoreA, PathRootG, PathRootT, PathLocalL, PathRootMp, PathCoreMp}

CopyInit ==
    /\ fRel \in CopyPaths
    /\ fPatterns = <<MyProject>>
    /\ fSrc \in TextsUpTo(MaxSrcTokens)
    /\ fDstExists \in BOOLEAN
    /\ fDst \in (IF fDstExists THEN TextsUpTo(MaxDstTokens) ELSE {<<>>})
    /\ fOut = <<>>
    /\ fBranch = "none"
    /\ fpc = "ready"

\* the file in the workspace and in the clone
SrcAbs == WorkspaceRoot \o DefaultRulesPath \o fRel
DstAbs == TempDir \o DefaultRulesPath \o fRel

\* copyFileForSync(source, destination), as the copy loop of syncRules calls it
SyncCopy ==
    /\ fpc = "ready"
    /\ fOut' = CopyFileForSync(fPatterns, SrcAbs, DstAbs, fSrc, fDstExists, fDst)
    /\ fBranch' = WriteBranch(fPatterns, SrcAbs, DstAbs, fSrc, fDstExists, fDst)
    /\ fpc' = "synced"
    /\ UNCHANGED <<fRel, fPatterns, fSrc, fDstExists, fDst>>
    /\ UNCHANGED <<syncVars, diffVars, retryVars, scanVars, firstVars, laterVars>>

\* copyFile(source, destination), as pullRules calls it for a file
PullCopy ==
    /\ fpc = "ready"
    /\ fOut' = CopyFile(fSrc, fDstExists, fDst)
    /\ fpc' = "pulled"
    /\ UNCHANGED <<fRel, fPatterns, fSrc, fDstExists, fDst, fBranch>>
    /\ UNCHANGED <<syncVars, diffVars, retryVars, scanVars, firstVars, laterVars>>

\* copyDirectory of the folder that holds the file, onto the folder that
\* holds (or will hold) the destination
PullCopyDir ==
    /\ fpc = "ready"
    /\ LET srcTree == WriteFile(EmptyTree, fRel, fSrc)
           dstTree == IF fDstExists THEN WriteFile(EmptyTree, fRel, fDst) ELSE EmptyTree
       IN  fOut' = CopyDirectory(srcTree, <<>>, dstTree, <<>>)[fRel]
    /\ fpc' = "dirpulled"
    /\ UNCHANGED <<fRel, fPatterns, fSrc, fDstExists, fDst, fBranch>>
    /\ UNCHANGED <<syncVars, diffVars, retryVars, scanVars, firstVars, laterVars>>

CopyNext == SyncCopy \/ PullCopy \/ PullCopyDir

-----------------------------------------------------------------------------
(* getRulesStructure, getSyncableRules and shouldExclude on one rule tree *)

\* the branch of getRulesStructure's loop that ignores excludePatterns for files
ClassifyItemFilesGlobal(name, isDir, patterns) ==
    IF isDir /\ SeqIncludes(patterns, name) THEN "local" ELSE "global"

\* this.config.excludePatterns.includes(item.name), for a folder and for a file
ClassifyItem(name, isDir, patterns) ==
    IF SeqIncludes(patterns, name) THEN "local" ELSE "global"

\* the Rule built for the entry name of the rule root; files are the paths
\* getFilesInDirectory lists for a folder, the file itself for a file
MakeRule(tree, name) ==
    [name |-> name,
     files |-> { q \in DOMAIN tree : q[1] = name },
     isDirectory |-> IsDirectory(tree, <<name>>)]

NoRules == [localRules |-> <<>>, globalRules |-> <<>>, error |-> FALSE]

\* for (const item of items) { ... }, items in readdir order
RECURSIVE ScanItems(_, _, _, _)
ScanItems(items, tree, patterns, acc) ==
    IF items = <<>> THEN acc
    ELSE LET rule == MakeRule(tree, Head(items))
             next == IF ClassifyItem(rule.name, rule.isDirectory, patterns) = "local"
                     THEN [acc EXCEPT !.localRules = Append(@, rule)]
                     ELSE [acc EXCEPT !.globalRules = Append(@, rule)]
         IN  ScanItems(Tail(items), tree, patterns, next)

\* the entries of the rule root in readdir order
NameOrder ==
    <<CoreDir, MyProject, <<"my-project", "md">>, <<"my-project", "v2", "md">>, <<"t", "txt">>>>

RECURSIVE ItemsFrom(_, _)
ItemsFrom(tree, i) ==
    IF i > Len(NameOrder) THEN <<>>
    ELSE (IF NameOrder[i] \in ReadDir(tree, <<>>) THEN <<NameOrder[i]>> ELSE <<>>)
         \o ItemsFrom(tree, i + 1)

\* a scan that reads the rule root without asking whether it exists
GetRulesStructureUnguarded(exists, tree, patterns) ==
    IF exists THEN ScanItems(ItemsFrom(tree, 1), tree, patterns, NoRules)
    ELSE [NoRules EXCEPT !.error = TRUE]

\* getRulesStructure(workspaceRoot)
GetRulesStructure(exists, tree, patterns) ==
    IF exists THEN ScanItems(ItemsFrom(tree, 1), tree, patterns, NoRules)
    ELSE NoRules

\* getSyncableRules(workspaceRoot)
GetSyncableRules(exists, tree, patterns) == GetRulesStructure(exists, tree, patterns).globalRules

PathRootMpV2 == <<<<"my-project", "v2", "md">>>>                 \* my-project.v2.md
PathLocalDeep == <<MyProject, <<"deep">>, <<"n", "md">>>>        \* my-project/deep/n.md
PathCoreNested == <<CoreDir, MyProject, <<"x", "md">>>>          \* core/my-project/x.md
ScanPaths ==
    {PathCoreA, PathCoreNested, PathLocalL, PathLocalDeep,
     PathRootMp, PathRootMpV2, PathRootT}

\* the rule trees: any set of ScanPaths, the content of a file plays no part
ScanTrees == UNION { [ps -> {ContentPlain}] : ps \in SUBSET ScanPaths }

\* the exclusion lists: the default, one that names a root file by its stem,
\* one that names a root file by its full name, one that names core
ScanPatterns ==
    { <<MyProject>>, <<MyProject, <<"t">>>>, <<<<"my-project", "md">>>>, <<CoreDir>> }

\* paths of the workspace outside the rule root
OutsidePaths ==
    { <<MyProject, <<"x", "md">>>>, <<<<"src">>, MyProject, <<"x", "md">>>> }

\* the paths shouldExclude is applied to, relative to the workspace
CheckedPaths(tree) == { DefaultRulesPath \o q : q \in DOMAIN tree } \cup OutsidePaths

ScanIdle ==
    /\ sExists = FALSE
    /\ sTree = EmptyTree
    /\ sPatterns = <<>>
    /\ sRules = NoRules
    /\ sSyncable = <<>>
    /\ sExcluded = {}
    /\ spc = "idle"
    /\ xpc = "idle"

ScanInit ==
    /\ sExists \in BOOLEAN
    /\ sTree \in (IF sExists THEN ScanTrees ELSE {EmptyTree})
    /\ sPatterns \in ScanPatterns
    /\ sRules = NoRules
    /\ sSyncable = <<>>
    /\ sExcluded = {}
    /\ spc = "ready"
    /\ xpc = "ready"

\* getRulesStructure and getSyncableRules on the tree
Scan ==
    /\ spc = "ready"
    /\ sRules' = GetRulesStructure(sExists, sTree, sPatterns)
    /\ sSyncable' = GetSyncableRules(sExists, sTree, sPatterns)
    /\ spc' = "scanned"
    /\ UNCHANGED <<sExists, sTree, sPatterns, sExcluded, xpc>>
    /\ UNCHANGED <<syncVars, diffVars, copyVars, retryVars, firstVars, laterVars>>

\* shouldExclude on every file of the tree and on the paths outside the rule root
Exclude ==
    /\ xpc = "ready"
    /\ sExcluded' = { q \in CheckedPaths(sTree) : ShouldExclude(q, sPatterns) }
    /\ xpc' = "checked"
    /\ UNCHANGED <<sExists, sTree, sPatterns, sRules, sSyncable, spc>>
    /\ UNCHANGED <<syncVars, diffVars, copyVars, retryVars, firstVars, laterVars>>

ScanNext == Scan \/ Exclude

-----------------------------------------------------------------------------
(* checkFirstSyncStatus as a function of the two trees and the clone's outcome *)

\* trees in which a file name occurs in more than one folder
FirstPaths == {PathCoreA, PathCoreB, PathLocalA, PathRootT}
FirstTrees == UNION { [ps -> {ContentPlain}] : ps \in SUBSET FirstPaths }

FirstIdle ==
    /\ aLocal = EmptyTree
    /\ aRemote = EmptyTree
    /\ aCloned = FALSE
    /\ aInfo = NoInfo
    /\ apc = "idle"

FirstInit ==
    /\ aLocal \in FirstTrees
    /\ aRemote \in FirstTrees
    /\ aCloned \in BOOLEAN
    /\ aInfo = NoInfo
    /\ apc = "ready"

\* checkFirstSyncStatus(workspaceRoot)
FirstAssess ==
    /\ apc = "ready"
    /\ aInfo' = CheckFirstSyncStatus(aLocal, aCloned, IF aCloned THEN aRemote ELSE EmptyTree)
    /\ apc' = FirstSyncOutcome(aCloned)
    /\ UNCHANGED <<aLocal, aRemote, aCloned>>
    /\ UNCHANGED <<syncVars, diffVars, copyVars, retryVars, scanVars, laterVars>>

-----------------------------------------------------------------------------
(* Specifications *)

SyncIdle ==
    /\ config \in {c \in Configs : ValidateConfig(c)}
    /\ local = EmptyTree
    /\ remote = EmptyTree
    /\ clone = EmptyTree
    /\ cloneBase = EmptyTree
    /\ pc = "off"
    /\ op = "none"
    /\ localFiles = EmptyTree
    /\ repoFiles = EmptyTree
    /\ toCopy = <<>>
    /\ toDelete = <<>>
    /\ stats = NoStats
    /\ remoteAtStart = EmptyTree
    /\ quiet = FALSE
    /\ wasQuiet = FALSE
    /\ info = NoInfo

CopyIdle ==
    /\ fRel = <<>>
    /\ fPatterns = <<>>
    /\ fSrc = <<>>
    /\ fDstExists = FALSE
    /\ fDst = <<>>
    /\ fOut = <<>>
    /\ fBranch = "none"
    /\ fpc = "idle"

\* ---------------------------------------------------------------------------
\* withRetry: one run of the retrying executor over one operation
\* ---------------------------------------------------------------------------

\* errorMessage.includes(pattern), both as sequences of characters
Includes(text, pattern) ==
    \E i \in 0..(Len(text) - Len(pattern)) : SubSeq(text, i + 1, i + Len(pattern)) = pattern

\* the substrings of the retryable test, in the order of the source
RetryableSubstrings ==
    {
      <<"f", "e", "t", "c", "h", " ", "f", "i", "r", "s", "t">>,
      <<"r", "e", "j", "e", "c", "t", "e", "d">>,
      <<"t", "i", "m", "e", "o", "u", "t">>,
      <<"n", "e", "t", "w", "o", "r", "k">>,
      <<"c", "o", "n", "n", "e", "c", "t", "i", "o", "n">>,
      <<"u", "n", "a", "b", "l", "e", " ", "t", "o", " ", "a", "c", "c", "e", "s", "s">>,
      <<"C", "o", "u", "l", "d", " ", "n", "o", "t", " ", "r", "e", "s", "o", "l", "v", "e", " ", "h", "o", "s", "t">>,
      <<"C", "o", "n", "n", "e", "c", "t", "i", "o", "n", " ", "t", "i", "m", "e", "d", " ", "o", "u", "t">>,
      <<"S", "S", "L", " ", "c", "e", "r", "t", "i", "f", "i", "c", "a", "t", "e">>,
      <<"a", "u", "t", "h", "e", "n", "t", "i", "c", "a", "t", "i", "o", "n">>,
      <<"p", "e", "r", "m", "i", "s", "s", "i", "o", "n", " ", "d", "e", "n", "i", "e", "d">>,
      <<"r", "e", "m", "o", "t", "e", ":", " ", "R", "e", "p", "o", "s", "i", "t", "o", "r", "y", " ", "n", "o", "t", " ", "f", "o", "u", "n", "d">>,
      <<"r", "e", "m", "o", "t", "e", ":", " ", "I", "n", "v", "a", "l", "i", "d", " ", "u", "s", "e", "r", "n", "a", "m", "e", " ", "o", "r", " ", "p", "a", "s", "s", "w", "o", "r", "d">>
    }

\* a classification that takes every error for a retryable one
IsRetryableErrorAlways(errorMessage) == TRUE

\* what withRetry retries: the message includes one of the substrings
IsRetryableError(errorMessage) ==
    \E pattern \in RetryableSubstrings : Includes(errorMessage, pattern)

\* the last-attempt test one attempt early
IsLastAttemptEarly(k, cfg) == k + 1 >= cfg.maxAttempts

\* attempt === config.maxAttempts
IsLastAttempt(k, cfg) == k = cfg.maxAttempts

\* Math.pow on non-negative integers; Math.pow(x, 0) is 1 for every x
RECURSIVE Pow(_, _)
Pow(b, e) == IF e = 0 THEN 1 ELSE b * Pow(b, e - 1)

Min(a, b) == IF a <= b THEN a ELSE b

\* the delay with the exponent attempt instead of attempt - 1
RetryDelayLate(cfg, k) ==
    Min(cfg.baseDelay * Pow(cfg.backoffMultiplier, k), cfg.maxDelay)

\* the delay after a retryable failure of attempt k
RetryDelay(cfg, k) ==
    Min(cfg.baseDelay * Pow(cfg.backoffMultiplier, k - 1), cfg.maxDelay)

\* the defaults of getRetryConfig
DefaultMaxAttempts == 3
DefaultBaseDelay == 1000
DefaultMaxDelay == 10000
DefaultBackoffMultiplier == 2

DefaultRetryConfig ==
    [maxAttempts |-> DefaultMaxAttempts, baseDelay |-> DefaultBaseDelay,
     maxDelay |-> DefaultMaxDelay, backoffMultiplier |-> DefaultBackoffMultiplier]

\* the largest retryMaxAttempts setting explored
MaxAttemptsSetting == 4

\* the settings getRetryConfig may read: the defaults and other non-negative
\* integers, among them 0 attempts, a zero delay, multipliers below 2 and a cap
\* below the base delay
RetryConfigs ==
    [maxAttempts : 0..MaxAttemptsSetting,
     baseDelay : {0, DefaultBaseDelay, 6000},
     maxDelay : {500, DefaultMaxDelay},
     backoffMultiplier : {0, 1, DefaultBackoffMultiplier, 3}]

\* String(error) of the errors the operation may raise
MsgTimeout == <<"E", "r", "r", "o", "r", ":", " ", "t", "i", "m", "e", "o", "u", "t">>
MsgFetchFirst == <<"f", "e", "t", "c", "h", " ", "f", "i", "r", "s", "t">>
MsgDenied == <<"P", "e", "r", "m", "i", "s", "s", "i", "o", "n", " ", "d", "e", "n", "i", "e", "d">>
MsgConflict == <<"c", "o", "n", "f", "l", "i", "c", "t">>
ErrorMessages == {MsgTimeout, MsgFetchFirst, MsgDenied, MsgConflict}

\* the log entry of an invocation that returned
Ok == <<"ok">>

\* lastError before any invocation failed
Undefined == <<0, <<>>>>

RetryInit ==
    /\ rcfg \in RetryConfigs
    /\ rpc = "loop"
    /\ attempt = 1
    /\ rLog = <<>>
    /\ rDelays = <<>>
    /\ rThrown = Undefined

\* the loop condition fails: throw lastError!
LoopExit ==
    /\ rpc = "loop"
    /\ ~ (attempt <= rcfg.maxAttempts)
    /\ rpc' = "thrown"
    /\ rThrown' = IF rLog = <<>> THEN Undefined ELSE <<Len(rLog), rLog[Len(rLog)]>>
    /\ UNCHANGED <<rcfg, attempt, rLog, rDelays>>
    /\ UNCHANGED <<syncVars, diffVars, copyVars, scanVars, firstVars, laterVars>>

\* return await operation()
InvokeReturns ==
    /\ rpc = "loop"
    /\ attempt <= rcfg.maxAttempts
    /\ rLog' = Append(rLog, Ok)
    /\ rpc' = "returned"
    /\ UNCHANGED <<rcfg, attempt, rDelays, rThrown>>
    /\ UNCHANGED <<syncVars, diffVars, copyVars, scanVars, firstVars, laterVars>>

\* operation() raises and the catch block rethrows
InvokeThrows ==
    /\ rpc = "loop"
    /\ attempt <= rcfg.maxAttempts
    /\ \E errorMessage \in ErrorMessages :
          /\ ~ IsRetryableError(errorMessage) \/ IsLastAttempt(attempt, rcfg)
          /\ rLog' = Append(rLog, errorMessage)
          /\ rThrown' = <<attempt, errorMessage>>
    /\ rpc' = "thrown"
    /\ UNCHANGED <<rcfg, attempt, rDelays>>
    /\ UNCHANGED <<syncVars, diffVars, copyVars, scanVars, firstVars, laterVars>>

\* operation() raises and the catch block schedules the delay
InvokeRetries ==
    /\ rpc = "loop"
    /\ attempt <= rcfg.maxAttempts
    /\ \E errorMessage \in ErrorMessages :
          /\ ~ (~ IsRetryableError(errorMessage) \/ IsLastAttempt(attempt, rcfg))
          /\ rLog' = Append(rLog, errorMessage)
    /\ rDelays' = Append(rDelays, RetryDelay(rcfg, attempt))
    /\ rpc' = "waiting"
    /\ UNCHANGED <<rcfg, attempt, rThrown>>
    /\ UNCHANGED <<syncVars, diffVars, copyVars, scanVars, firstVars, laterVars>>

\* the timer fires: attempt++
DelayElapsed ==
    /\ rpc = "waiting"
    /\ attempt' = attempt + 1
    /\ rpc' = "loop"
    /\ UNCHANGED <<rcfg, rLog, rDelays, rThrown>>
    /\ UNCHANGED <<syncVars, diffVars, copyVars, scanVars, firstVars, laterVars>>

RetryNext ==
    \/ LoopExit
    \/ InvokeReturns
    \/ InvokeThrows
    \/ InvokeRetries
    \/ DelayElapsed


RetryIdle ==
    /\ rcfg = [maxAttempts |-> 0, baseDelay |-> 0, maxDelay |-> 0, backoffMultiplier |-> 0]
    /\ rpc = "idle"
    /\ attempt = 0
    /\ rLog = <<>>
    /\ rDelays = <<>>
    /\ rThrown = <<>>

\* ---------------------------------------------------------------------------
\* ensureGitignore: the Cursor rules section of <workspaceRoot>/.gitignore.
\* A file content is the sequence of its lines (what content.split('\n')
\* gives: '' is one empty line, and a content ending in '\n' ends with an
\* empty line).  A line is the sequence of the pieces the code looks for in
\* it, so that includes(), startsWith() and trim() are computed on the line.
\* ---------------------------------------------------------------------------

CursorRulesDir == ".cursor/rules"

\* 'Исключаем все правила', the phrase of the section's first comment
ExcludePhrase == "Isklyuchaem vse pravila"

\* 'Разрешаем синхронизацию', the phrase of the comment above the allow rules
AllowPhrase == "Razreshaem sinhronizaciyu"

EmptyLine == <<>>

HeaderLine == <<"# Cursor Rules">>

ExcludeComment == <<"# ", ExcludePhrase, " Cursor iz osnovnogo repozitoriya">>

ExcludeAllLine == <<CursorRulesDir, "/*">>

AllowComment == <<"# ", AllowPhrase, " ukazannyh papok s osnovnym proektom">>

AllowFolder(pattern) == <<"!", CursorRulesDir, "/", pattern, "/">>

AllowBelow(pattern) == <<"!", CursorRulesDir, "/", pattern, "/**">>

\* line.includes(piece), for a piece the code searches for
LineIncludes(line, piece) == \E i \in 1..Len(line) : line[i] = piece

\* line.startsWith('!')
StartsWithBang(line) == Len(line) > 0 /\ line[1] = "!"

\* line.startsWith('!.cursor/rules/')
StartsWithAllow(line) ==
    /\ Len(line) >= 3
    /\ SubSeq(line, 1, 3) = <<"!", CursorRulesDir, "/">>

\* line.trim() === ''
TrimIsEmpty(line) == \A i \in 1..Len(line) : line[i] = " "

\* content.includes('.cursor/rules')
ContentIncludesRules(content) ==
    \E i \in 1..Len(content) : LineIncludes(content[i], CursorRulesDir)

\* content.endsWith('\n')
EndsWithNewline(content) == Len(content) >= 2 /\ content[Len(content)] = EmptyLine

\* content is truthy: not the empty string
NonEmptyContent(content) == content # <<EmptyLine>>

\* section.trimEnd() of a text whose lines hold no trailing space
RECURSIVE TrimEnd(_)
TrimEnd(content) ==
    IF Len(content) > 1 /\ TrimIsEmpty(content[Len(content)])
    THEN TrimEnd(SubSeq(content, 1, Len(content) - 1))
    ELSE content

\* Array.from(allowRules): the Set keeps each rule once, in insertion order
RECURSIVE AllowRules(_, _)
AllowRules(patterns, rules) ==
    IF patterns = <<>> THEN rules
    ELSE LET folder == AllowFolder(Head(patterns))
             below == AllowBelow(Head(patterns))
             one == IF \E i \in 1..Len(rules) : rules[i] = folder
                    THEN rules ELSE Append(rules, folder)
             two == IF \E i \in 1..Len(one) : one[i] = below
                    THEN one ELSE Append(one, below)
         IN  AllowRules(Tail(patterns), two)

GenerateCursorRulesSection(excludePatterns) ==
    TrimEnd(<<ExcludeComment, ExcludeAllLine>>
            \o (IF Len(excludePatterns) > 0
                THEN <<EmptyLine, AllowComment>> \o AllowRules(excludePatterns, <<>>)
                ELSE <<>>)
            \o <<EmptyLine>>)

\* the line that opens the section: the header, or the first line naming
\* .cursor/rules that is not a negation
OpensSection(line) ==
    \/ LineIncludes(line, "# Cursor Rules")
    \/ LineIncludes(line, CursorRulesDir) /\ ~StartsWithBang(line)

\* the line that closes the section: a blank line, or a line that is neither
\* about .cursor/rules, nor a negation, nor one of the two comments
ClosesSection(line) ==
    \/ TrimIsEmpty(line)
    \/ /\ ~LineIncludes(line, CursorRulesDir)
       /\ ~StartsWithBang(line)
       /\ ~LineIncludes(line, AllowPhrase)
       /\ ~LineIncludes(line, ExcludePhrase)

\* cursorSectionStart, counted from 1; 0 when no line opens the section
CursorSectionStart(lines) ==
    LET opening == { i \in 1..Len(lines) : OpensSection(lines[i]) }
    IN  IF opening = {} THEN 0
        ELSE CHOOSE i \in opening : \A j \in opening : i <= j

\* cursorSectionEnd, counted from 1; Len(lines) + 1 when the section runs to
\* the end of the file or when there is no section
CursorSectionEnd(lines) ==
    LET start == CursorSectionStart(lines)
        closing == { i \in 1..Len(lines) : i > start /\ ClosesSection(lines[i]) }
    IN  IF start = 0 \/ closing = {} THEN Len(lines) + 1
        ELSE CHOOSE i \in closing : \A j \in closing : i <= j

\* the lines after the section that are not copied
SkippedAfterSection(line) ==
    \/ StartsWithAllow(line)
    \/ LineIncludes(line, CursorRulesDir) /\ ~StartsWithBang(line)
    \/ LineIncludes(line, "# Cursor Rules")
    \/ LineIncludes(line, AllowPhrase)
    \/ LineIncludes(line, ExcludePhrase)

KeptAfterSection(line) == ~SkippedAfterSection(line)

\* the last loop: a blank line is kept unless the line before it in the result
\* is blank, any other line is kept the first time it is seen
RECURSIVE RemoveDuplicates(_, _)
RemoveDuplicates(newLines, result) ==
    IF newLines = <<>> THEN result
    ELSE LET line == Head(newLines)
             keep == IF TrimIsEmpty(line)
                     THEN result = <<>> \/ ~TrimIsEmpty(result[Len(result)])
                     ELSE ~\E i \in 1..Len(result) : result[i] = line
         IN  RemoveDuplicates(Tail(newLines),
                              IF keep THEN Append(result, line) ELSE result)

UpdateCursorRulesSection(content, excludePatterns) ==
    LET start == CursorSectionStart(content)
        end == CursorSectionEnd(content)
        before == IF start = 0 THEN content ELSE SubSeq(content, 1, start - 1)
        section == IF start # 0
                   THEN <<HeaderLine>> \o GenerateCursorRulesSection(excludePatterns)
                   ELSE <<>>
        after == SelectSeq(SubSeq(content, end, Len(content)), KeptAfterSection)
    IN  RemoveDuplicates(before \o section \o after, <<>>)

\* content += '\n# Cursor Rules\n' + cursorRulesSection, after a '\n' when
\* the content is not empty and does not end with one
AppendCursorRulesSection(content, excludePatterns) ==
    (IF NonEmptyContent(content) /\ ~EndsWithNewline(content)
     THEN Append(content, EmptyLine) ELSE content)
    \o <<HeaderLine>> \o GenerateCursorRulesSection(excludePatterns)

\* what ensureGitignore writes, from what it read
EnsureGitignoreContent(exists, onDisk, excludePatterns) ==
    LET content == IF exists THEN onDisk ELSE <<EmptyLine>>
    IN  IF ~ContentIncludesRules(content)
        THEN AppendCursorRulesSection(content, excludePatterns)
        ELSE UpdateCursorRulesSection(content, excludePatterns)

\* the lines a .gitignore of the model is made of: a user's ignore rule, a
\* user's negation, the user's rule for the backup folder of the rules, a
\* blank line, and the lines of a Cursor rules section
UserLines == { <<"node_modules/">>, <<"!", "keep.log">>, <<CursorRulesDir, "-backup/">> }

IgnoreLines ==
    UserLines \cup { EmptyLine, HeaderLine, ExcludeAllLine, AllowComment,
                     AllowFolder("my-project") }

MaxLines == 4

Contents == UNION { [1..n -> IgnoreLines] : n \in 1..MaxLines }

IgnorePatterns == { <<>>, <<"my-project">>, <<"my-project", "new-local">> }

IgnoreIdle ==
    /\ gExists = FALSE
    /\ gContent = <<>>
    /\ gPatterns = <<>>
    /\ gOut = <<>>
    /\ gpc = "idle"

IgnoreInit ==
    /\ gExists \in BOOLEAN
    /\ gContent \in (IF gExists THEN Contents ELSE {<<EmptyLine>>})
    /\ gPatterns \in IgnorePatterns
    /\ gOut = <<>>
    /\ gpc = "ready"

EnsureGitignore ==
    /\ gpc = "ready"
    /\ gOut' = EnsureGitignoreContent(gExists, gContent, gPatterns)
    /\ gpc' = "written"
    /\ UNCHANGED <<gExists, gContent, gPatterns>>
    /\ UNCHANGED <<syncVars, diffVars, copyVars, retryVars, scanVars, firstVars, flowVars, resolveVars, endVars>>

\* ---------------------------------------------------------------------------
\* safeFirstSync: the assessment of checkFirstSyncStatus, then one branch
\* ---------------------------------------------------------------------------

MergeStrategies == {"local-first", "remote-first", "manual"}

SafeSyncOptions == [mergeStrategy : MergeStrategies, createBackup : BOOLEAN]

\* the operation safeFirstSync hands the workspace to, "none" when it calls
\* neither syncRules nor pullRules
ResolveOperationByStrategy(syncInfo, mergeStrategy) ==
    IF syncInfo.isFirstSync THEN "none"
    ELSE IF mergeStrategy = "local-first" THEN "syncRules"
    ELSE IF mergeStrategy = "remote-first" THEN "pullRules"
    ELSE "none"

ResolveOperation(syncInfo, mergeStrategy) ==
    IF syncInfo.isFirstSync THEN "none"
    ELSE IF syncInfo.hasLocalRules /\ syncInfo.hasRemoteRules
    THEN (IF mergeStrategy = "local-first" THEN "syncRules"
          ELSE IF mergeStrategy = "remote-first" THEN "pullRules"
          ELSE "none")
    ELSE IF syncInfo.hasLocalRules /\ ~syncInfo.hasRemoteRules THEN "syncRules"
    ELSE IF ~syncInfo.hasLocalRules /\ syncInfo.hasRemoteRules THEN "pullRules"
    ELSE "none"

\* what safeFirstSync did before it returned, threw or delegated
SafeFirstSyncRun(syncInfo, options, dirExists) ==
    [backup |-> options.createBackup /\ syncInfo.hasLocalRules,
     mkdir |-> syncInfo.isFirstSync /\ ~dirExists,
     called |-> ResolveOperation(syncInfo, options.mergeStrategy)]

\* how safeFirstSync ended: with the stats of the operation it called, with
\* all-zero stats of its own, or with the error that lists the conflicts
SafeFirstSyncResult(syncInfo, options) ==
    LET called == ResolveOperation(syncInfo, options.mergeStrategy)
    IN  IF called # "none"
        THEN [outcome |-> "delegated", stats |-> NoStats, conflicts |-> <<>>]
        ELSE IF ~syncInfo.isFirstSync /\ syncInfo.hasLocalRules /\ syncInfo.hasRemoteRules
        THEN [outcome |-> "thrown", stats |-> NoStats, conflicts |-> syncInfo.conflicts]
        ELSE [outcome |-> "returned", stats |-> NoStats, conflicts |-> <<>>]

NoRun == [backup |-> FALSE, mkdir |-> FALSE, called |-> "none"]

NoOutcome == [outcome |-> "none", stats |-> NoStats, conflicts |-> <<>>]

ResolveIdle ==
    /\ zLocal = EmptyTree
    /\ zRemote = EmptyTree
    /\ zCloned = FALSE
    /\ zDirExists = FALSE
    /\ zOptions = [mergeStrategy |-> "manual", createBackup |-> FALSE]
    /\ zInfo = NoInfo
    /\ zRun = NoRun
    /\ zResult = NoOutcome
    /\ zpc = "idle"

ResolveInit ==
    /\ zLocal \in FirstTrees
    /\ zRemote \in FirstTrees
    /\ zCloned \in BOOLEAN
    /\ zDirExists \in (IF zLocal = EmptyTree THEN BOOLEAN ELSE {TRUE})
    /\ zOptions \in SafeSyncOptions
    /\ zInfo = NoInfo
    /\ zRun = NoRun
    /\ zResult = NoOutcome
    /\ zpc = "ready"

\* safeFirstSync(workspaceRoot, options)
SafeFirstSync ==
    /\ zpc = "ready"
    /\ LET syncInfo == CheckFirstSyncStatus(zLocal, zCloned,
                                            IF zCloned THEN zRemote ELSE EmptyTree)
       IN  /\ zInfo' = syncInfo
           /\ zRun' = SafeFirstSyncRun(syncInfo, zOptions, zDirExists)
           /\ zResult' = SafeFirstSyncResult(syncInfo, zOptions)
    /\ zDirExists' = (zDirExists \/ zRun'.mkdir)
    /\ zpc' = "done"
    /\ UNCHANGED <<zLocal, zRemote, zCloned, zOptions>>
    /\ UNCHANGED <<syncVars, diffVars, copyVars, retryVars, scanVars, firstVars, flowVars, ignoreVars, endVars>>

LastIdle == IgnoreIdle /\ ResolveIdle

\* ---------------------------------------------------------------------------
\* syncRules and pushRules on one disk: the files of the workspace and of the
\* temporary clones by absolute path, so that every write of a call has a place
\* ---------------------------------------------------------------------------

GitignorePath == Append(WorkspaceRoot, <<"", "gitignore">>)

DiskConfig ==
    [rulesRepoUrl |-> RepoUrl, globalRulesPath |-> DefaultRulesPath,
     excludePatterns |-> <<MyProject>>]

\* the text of a folder name without dots: its only part
PatternText(name) == name[1]

PatternTexts(patterns) == [i \in 1..Len(patterns) |-> PatternText(patterns[i])]

MaxDiskCalls == 2

\* Date.now() and Math.random() of getTempDir, one pair per call
TempNames ==
    <<"cursor-rules-tmp-1-k3j", "cursor-rules-tmp-2-x9q", "cursor-rules-tmp-3-p0d",
      "cursor-rules-tmp-4-m7c">>

\* getTempDir() of the n-th call
DiskTempDir(n) == <<<<"tmp">>, <<TempNames[n]>>>>

\* path.join(workspaceRoot, config.globalRulesPath)
LocalRulesPath(cfg) == WorkspaceRoot \o cfg.globalRulesPath

\* path.join(tempDir, config.globalRulesPath)
RepoRulesPath(cfg, tempDir) == tempDir \o cfg.globalRulesPath

\* the files below a directory, by their path relative to it
Below(disk, dir) ==
    [p \in { Drop(q, Len(dir) + 1) : q \in { r \in DOMAIN disk : IsPrefix(dir, r) } }
        |-> disk[dir \o p]]

\* the disk with a tree written below a directory
PlaceBelow(disk, dir, tree) ==
    [q \in (DOMAIN disk) \cup { dir \o p : p \in DOMAIN tree } |->
        IF IsPrefix(dir, q) /\ Drop(q, Len(dir) + 1) \in DOMAIN tree
        THEN tree[Drop(q, Len(dir) + 1)] ELSE disk[q]]

\* fs.rmSync(dir, { recursive: true, force: true })
RemoveBelow(disk, dir) == [q \in { r \in DOMAIN disk : ~IsPrefix(dir, r) } |-> disk[q]]

\* a copy that writes the source from the destination
DiskCopyReversed(patterns, disk, src, dst) ==
    IF Exists(disk, dst) THEN WriteFile(disk, src, disk[dst]) ELSE disk

\* await this.copyFileForSync(src, dst)
DiskCopy(patterns, disk, src, dst) ==
    WriteFile(disk, dst,
              CopyFileForSync(patterns, src, dst, disk[src], Exists(disk, dst),
                              IF Exists(disk, dst) THEN disk[dst] ELSE <<>>))

RECURSIVE DiskCopyLoop(_, _, _, _)
\* for (const file of toCopy) { src = ...; dst = ...; copyFileForSync(src, dst) }
DiskCopyLoop(files, disk, cfg, tempDir) ==
    IF files = <<>> THEN disk
    ELSE LET src == LocalRulesPath(cfg) \o Head(files)
             dst == RepoRulesPath(cfg, tempDir) \o Head(files)
         IN  DiskCopyLoop(Tail(files), DiskCopy(cfg.excludePatterns, disk, src, dst),
                          cfg, tempDir)

\* ensureGitignore(workspaceRoot, excludePatterns) on the disk
DiskEnsureGitignore(disk, cfg) ==
    WriteFile(disk, GitignorePath,
              EnsureGitignoreContent(Exists(disk, GitignorePath),
                                     IF Exists(disk, GitignorePath)
                                     THEN disk[GitignorePath] ELSE <<>>,
                                     PatternTexts(cfg.excludePatterns)))

\* the change set of the call in flight, from the two maps
DiskChangeSet(disk, cfg, tempDir) ==
    ComputeChangeSet(
        GetAllFilesWithHash(Below(disk, LocalRulesPath(cfg)), cfg.globalRulesPath,
                            cfg.excludePatterns),
        GetAllFilesWithHash(Below(disk, RepoRulesPath(cfg, tempDir)),
                            TempDirFromWorkspace \o cfg.globalRulesPath,
                            cfg.excludePatterns))

DiskLocalTrees == UNION { [ps -> {ContentAX, ContentPlain}] : ps \in SUBSET {PathCoreA, PathLocalL} }

DiskRemoteTrees == UNION { [ps -> {ContentBY, ContentPlain}] : ps \in SUBSET {PathCoreA, PathRootT} }

DiskGitignores == { EmptyTree, [p \in {GitignorePath} |-> <<<<"node_modules/">>>>] }

DiskIdle ==
    /\ kDisk = EmptyTree
    /\ kRemote = EmptyTree
    /\ kBefore = EmptyTree
    /\ kOp = "none"
    /\ kpc = "off"
    /\ kCalls = 0

DiskInit ==
    /\ \E l \in DiskLocalTrees, g \in DiskGitignores :
          kDisk = PlaceBelow(g, LocalRulesPath(DiskConfig), l)
    /\ kRemote \in DiskRemoteTrees
    /\ kBefore = Below(kDisk, LocalRulesPath(DiskConfig))
    /\ kOp = "none"
    /\ kpc = "idle"
    /\ kCalls = 0

\* syncRules / pushRules up to the clone: the configuration is valid, the
\* workspace .gitignore is written, the temporary directory is named
DiskStart ==
    /\ kpc = "idle"
    /\ kCalls < MaxDiskCalls
    /\ kCalls' = kCalls + 1
    /\ \E o \in {"sync", "push"} : kOp' = o
    /\ kDisk' = DiskEnsureGitignore(kDisk, DiskConfig)
    /\ kpc' = "cloning"
    /\ UNCHANGED <<kRemote, kBefore>>
    /\ UNCHANGED <<syncVars, diffVars, copyVars, retryVars, scanVars, firstVars, flowVars, lastVars, convVars, backupVars>>

\* git.clone succeeded: the files of the repository are in the temporary directory
DiskCloneOk ==
    /\ kpc = "cloning"
    /\ kDisk' = PlaceBelow(kDisk, RepoRulesPath(DiskConfig, DiskTempDir(kCalls)), kRemote)
    /\ kpc' = "computing"
    /\ UNCHANGED <<kRemote, kBefore, kOp, kCalls>>
    /\ UNCHANGED <<syncVars, diffVars, copyVars, retryVars, scanVars, firstVars, flowVars, lastVars, convVars, backupVars>>

\* git.clone failed for good: the call throws
DiskCloneFail ==
    /\ kpc = "cloning"
    /\ kpc' = "errored"
    /\ UNCHANGED <<kDisk, kRemote, kBefore, kOp, kCalls>>
    /\ UNCHANGED <<syncVars, diffVars, copyVars, retryVars, scanVars, firstVars, flowVars, lastVars, convVars, backupVars>>

\* both maps, the diff and the copy loop; a copy that throws ends the loop
\* and the call
DiskApply ==
    /\ kpc = "computing"
    /\ LET cs == DiskChangeSet(kDisk, DiskConfig, DiskTempDir(kCalls))
       IN  \E n \in 0..Len(cs.toCopy) :
              /\ kDisk' = DiskCopyLoop(SubSeq(cs.toCopy, 1, n), kDisk, DiskConfig,
                                       DiskTempDir(kCalls))
              /\ kpc' = IF n = Len(cs.toCopy) THEN "committing" ELSE "errored"
    /\ UNCHANGED <<kRemote, kBefore, kOp, kCalls>>
    /\ UNCHANGED <<syncVars, diffVars, copyVars, retryVars, scanVars, firstVars, flowVars, lastVars, convVars, backupVars>>

\* git add, status, and with staged changes commit, pull and push: the
\* repository takes the clone's files; then the cleanup timer removes the
\* temporary directory
DiskPushOk ==
    /\ kpc = "committing"
    /\ kRemote' = Below(kDisk, RepoRulesPath(DiskConfig, DiskTempDir(kCalls)))
    /\ kDisk' = RemoveBelow(kDisk, DiskTempDir(kCalls))
    /\ kpc' = "idle"
    /\ kOp' = "none"
    /\ UNCHANGED <<kBefore, kCalls>>
    /\ UNCHANGED <<syncVars, diffVars, copyVars, retryVars, scanVars, firstVars, flowVars, lastVars, convVars, backupVars>>

\* commit or push failed: the call throws and the temporary directory stays
DiskPushFail ==
    /\ kpc = "committing"
    /\ Below(kDisk, RepoRulesPath(DiskConfig, DiskTempDir(kCalls))) # kRemote
    /\ kpc' = "errored"
    /\ UNCHANGED <<kDisk, kRemote, kBefore, kOp, kCalls>>
    /\ UNCHANGED <<syncVars, diffVars, copyVars, retryVars, scanVars, firstVars, flowVars, lastVars, convVars, backupVars>>

\* the error reached the caller
DiskThrown ==
    /\ kpc = "errored"
    /\ kpc' = "idle"
    /\ kOp' = "none"
    /\ UNCHANGED <<kDisk, kRemote, kBefore, kCalls>>
    /\ UNCHANGED <<syncVars, diffVars, copyVars, retryVars, scanVars, firstVars, flowVars, lastVars, convVars, backupVars>>

DiskNext ==
    \/ DiskStart
    \/ DiskCloneOk
    \/ DiskCloneFail
    \/ DiskApply
    \/ DiskPushOk
    \/ DiskPushFail
    \/ DiskThrown

\* ---------------------------------------------------------------------------
\* pullRules, then syncRules on the same workspace and repository
\* ---------------------------------------------------------------------------

ConvPaths == {PathCoreA, PathCoreNested, PathLocalL, PathRootMp, PathRootT}

ConvLocalTrees == UNION { [ps -> {ContentAX}] : ps \in SUBSET ConvPaths }

ConvRemoteTrees == UNION { [ps -> {ContentPlain}] : ps \in SUBSET ConvPaths }

\* the default list, one that names a root file by its stem and one that
\* names it by its full name
ConvPatterns == { <<MyProject>>, <<MyProject, <<"t">>>>, <<<<"my-project", "md">>>> }

ConvIdle ==
    /\ vLocal = EmptyTree
    /\ vRemote = EmptyTree
    /\ vPatterns = <<>>
    /\ vBefore = EmptyTree
    /\ vPulled = NoStats
    /\ vStats = NoStats
    /\ vpc = "idle"

ConvInit ==
    /\ vLocal \in ConvLocalTrees
    /\ vRemote \in ConvRemoteTrees
    /\ vPatterns \in ConvPatterns
    /\ vBefore = vLocal
    /\ vPulled = NoStats
    /\ vStats = NoStats
    /\ vpc = "ready"

\* a successful pullRules
ConvPull ==
    /\ vpc = "ready"
    /\ vLocal' = PullInto(vRemote, vLocal, vPatterns)
    /\ vPulled' = MakeStats(Cardinality(PulledItems(vRemote, vPatterns)), 0, 0)
    /\ vpc' = "pulled"
    /\ UNCHANGED <<vRemote, vPatterns, vBefore, vStats>>
    /\ UNCHANGED <<syncVars, diffVars, copyVars, retryVars, scanVars, firstVars, flowVars, lastVars, diskVars, backupVars>>

\* the syncRules that follows: its two maps, its diff and its stats
ConvSync ==
    /\ vpc = "pulled"
    /\ LET cs == ComputeChangeSet(
                     GetAllFilesWithHash(vLocal, DefaultRulesPath, vPatterns),
                     GetAllFilesWithHash(vRemote, TempDirFromWorkspace \o DefaultRulesPath,
                                         vPatterns))
       IN  vStats' = MakeStats(cs.added, cs.modified, cs.deleted)
    /\ vpc' = "synced"
    /\ UNCHANGED <<vLocal, vRemote, vPatterns, vBefore, vPulled>>
    /\ UNCHANGED <<syncVars, diffVars, copyVars, retryVars, scanVars, firstVars, flowVars, lastVars, diskVars, backupVars>>

ConvNext == ConvPull \/ ConvSync

\* ---------------------------------------------------------------------------
\* safeFirstSync on one disk: the assessment, the backup, then the branch taken
\* ---------------------------------------------------------------------------

\* the settings of globalRulesPath: the default and '.cursor'
BackupRulesPaths == {DefaultRulesPath, <<DotCursor>>}

BackupConfig(rulesPath) ==
    [rulesRepoUrl |-> RepoUrl, globalRulesPath |-> rulesPath, excludePatterns |-> <<MyProject>>]

\* `backup-${timestamp}`, the timestamp of the one call being
\* new Date().toISOString().replace(/[:.]/g, '-')
BackupName == <<"backup-2026-11-02T09-30-00-000Z">>

\* path.join(workspaceRoot, '.cursor', 'rules-backup', `backup-${timestamp}`)
BackupPath == WorkspaceRoot \o <<DotCursor, <<"rules-backup">>, BackupName>>

\* copyDirectory(source, destination) on one disk. When the destination lies
\* below the source, readdir of the source lists the folder that leads to the
\* destination (mkdirSync has created it), and the copy of that folder descends
\* into its own output until mkdirSync fails on the length of the path: the
\* entries listed before that folder are copied, the call throws. The copies
\* nested deeper repeat these and are left out.
CopyDirectoryOnDisk(disk, source, destination, listedFirst) ==
    LET tree == Below(disk, source)
        partial == [p \in { q \in DOMAIN tree : q[1] \in listedFirst } |-> tree[p]]
    IN  IF IsPrefix(source, destination)
        THEN [failed |-> TRUE, disk |-> PlaceBelow(disk, destination, partial)]
        ELSE [failed |-> FALSE, disk |-> CopyDirectory(disk, source, disk, destination)]

\* createLocalRulesBackup(workspaceRoot)
CreateLocalRulesBackup(disk, cfg, listedFirst) ==
    IF Below(disk, LocalRulesPath(cfg)) # EmptyTree
    THEN CopyDirectoryOnDisk(disk, LocalRulesPath(cfg), BackupPath, listedFirst)
    ELSE [failed |-> FALSE, disk |-> disk]

\* if (options.createBackup && syncInfo.hasLocalRules)
BackupDue(options, syncInfo) == options.createBackup /\ syncInfo.hasLocalRules

\* the rules repository after a successful syncRules of the workspace
SyncedRemote(disk, cfg, remoteTree) ==
    LET localTree == Below(disk, LocalRulesPath(cfg))
        cs == ComputeChangeSet(
                  GetAllFilesWithHash(localTree, cfg.globalRulesPath, cfg.excludePatterns),
                  GetAllFilesWithHash(remoteTree, TempDirFromWorkspace \o cfg.globalRulesPath,
                                      cfg.excludePatterns))
    IN  ApplyChangeSet(cs, localTree, remoteTree, cfg)

\* the disk after a successful pullRules into the workspace
PulledDisk(disk, cfg, remoteTree) ==
    PlaceBelow(disk, LocalRulesPath(cfg),
               PullInto(remoteTree, Below(disk, LocalRulesPath(cfg)), cfg.excludePatterns))

BackupLocalTrees == UNION { [ps -> {ContentAX}] : ps \in SUBSET {PathCoreA, PathLocalL, PathRootT} }

BackupRemoteTrees == UNION { [ps -> {ContentPlain}] : ps \in SUBSET {PathCoreA, PathCoreB} }

BackupIdle ==
    /\ bPath = <<>>
    /\ bDisk = EmptyTree
    /\ bRemote = EmptyTree
    /\ bCloned = FALSE
    /\ bOptions = [mergeStrategy |-> "manual", createBackup |-> FALSE]
    /\ bBefore = EmptyTree
    /\ bInfo = NoInfo
    /\ bSteps = <<>>
    /\ bpc = "idle"

BackupInit ==
    /\ bPath \in BackupRulesPaths
    /\ \E l \in BackupLocalTrees : bDisk = PlaceBelow(EmptyTree, WorkspaceRoot \o bPath, l)
    /\ bRemote \in BackupRemoteTrees
    /\ bCloned \in BOOLEAN
    /\ bOptions \in SafeSyncOptions
    /\ bBefore = Below(bDisk, WorkspaceRoot \o bPath)
    /\ bInfo = NoInfo
    /\ bSteps = <<>>
    /\ bpc = "ready"

\* const syncInfo = await this.checkFirstSyncStatus(workspaceRoot)
BackupAssess ==
    /\ bpc = "ready"
    /\ bInfo' = CheckFirstSyncStatus(Below(bDisk, LocalRulesPath(BackupConfig(bPath))), bCloned,
                                     IF bCloned THEN bRemote ELSE EmptyTree)
    /\ bSteps' = Append(bSteps, "assess")
    /\ bpc' = "assessed"
    /\ UNCHANGED <<bPath, bDisk, bRemote, bCloned, bOptions, bBefore>>
    /\ UNCHANGED <<syncVars, diffVars, copyVars, retryVars, scanVars, firstVars, flowVars, lastVars, diskVars, convVars>>

\* await this.createLocalRulesBackup(workspaceRoot)
BackupTake ==
    /\ bpc = "assessed"
    /\ BackupDue(bOptions, bInfo)
    /\ \E listedFirst \in SUBSET ReadDir(bBefore, <<>>) :
          LET out == CreateLocalRulesBackup(bDisk, BackupConfig(bPath), listedFirst)
          IN  /\ bDisk' = out.disk
              /\ bpc' = IF out.failed THEN "thrown" ELSE "backedUp"
    /\ bSteps' = Append(bSteps, "backup")
    /\ UNCHANGED <<bPath, bRemote, bCloned, bOptions, bBefore, bInfo>>
    /\ UNCHANGED <<syncVars, diffVars, copyVars, retryVars, scanVars, firstVars, flowVars, lastVars, diskVars, convVars>>

\* the branch of safeFirstSync: the directory is made, syncRules or pullRules
\* runs and succeeds, or the conflicts are thrown
BackupResolve ==
    /\ \/ bpc = "backedUp"
       \/ bpc = "assessed" /\ ~ BackupDue(bOptions, bInfo)
    /\ LET cfg == BackupConfig(bPath)
           called == ResolveOperation(bInfo, bOptions.mergeStrategy)
       IN  /\ bRemote' = IF called = "syncRules" THEN SyncedRemote(bDisk, cfg, bRemote)
                         ELSE bRemote
           /\ bDisk' = IF called = "pullRules" THEN PulledDisk(bDisk, cfg, bRemote) ELSE bDisk
           /\ bSteps' = Append(bSteps, IF bInfo.isFirstSync THEN "mkdir" ELSE called)
           /\ bpc' = IF called = "none" /\ ~ bInfo.isFirstSync THEN "thrown" ELSE "done"
    /\ UNCHANGED <<bPath, bCloned, bOptions, bBefore, bInfo>>
    /\ UNCHANGED <<syncVars, diffVars, copyVars, retryVars, scanVars, firstVars, flowVars, lastVars, diskVars, convVars>>

BackupNext == BackupAssess \/ BackupTake \/ BackupResolve

EndIdle == DiskIdle /\ ConvIdle /\ BackupIdle

\* ---------------------------------------------------------------------------
\* The calls of one extension host on one workspace, step by step: the host
\* starts syncRules, pushRules, pullRules and checkFirstSyncStatus; every call
\* runs from one await of a git call to the next
\* ---------------------------------------------------------------------------

\* the calls one run of the host makes: one, or two that may overlap
OneCall == {1}
TwoCalls == {1, 2}
CallIds == DOMAIN calls

\* the largest retryMaxAttempts setting of these calls
MaxFlowAttempts == 2

\* the largest number of files in toCopy
MaxFiles == 2

\* the readings of Date.now() told apart
MaxNow == 1

\* Math.random().toString(36).slice(2)
RandomSuffixes == {"k3j", "x9q"}

NoDir == <<>>

\* a temporary directory named after one constant
GetTempDirFixed(stamp, suffix) == <<"cursor-rules-tmp">>

\* getTempDir: cursor-rules-tmp-<Date.now()>-<random suffix> under os.tmpdir()
GetTempDir(stamp, suffix) == <<"cursor-rules-tmp", stamp, suffix>>

MsgExists == <<"a", "l", "r", "e", "a", "d", "y", " ", "e", "x", "i", "s", "t", "s">>
MsgCopy == <<"E", "N", "O", "S", "P", "C">>
MsgLocalGit == <<"f", "a", "t", "a", "l">>
MsgConfig == <<"c", "o", "n", "f", "i", "g">>
MsgUndefined == <<"u", "n", "d", "e", "f", "i", "n", "e", "d">>

NoResult == [outcome |-> "none", text |-> "none", cause |-> <<>>]
OkResult == [outcome |-> "ok", text |-> "none", cause |-> <<>>]
ErrorResult(text, cause) == [outcome |-> "error", text |-> text, cause |-> cause]

IdleCall ==
    [kind |-> "none", origin |-> "none", pc |-> "Idle", attempt |-> 0, waiting |-> FALSE,
     tempDir |-> NoDir, stamp |-> 0, suffix |-> "", behind |-> "no",
     toCopy |-> 0, copied |-> 0, badFile |-> 0,
     pushed |-> FALSE, log |-> <<>>, result |-> NoResult]

Terminal == {"Done", "Errored"}
InFlight(c) == calls[c].pc \notin ({"Idle"} \cup Terminal)

\* the settings read by the constructor
FlowRetryConfigs == { [DefaultRetryConfig EXCEPT !.maxAttempts = n] : n \in 0..MaxFlowAttempts }

FlowIdle ==
    /\ wcfg = [rulesRepoUrl |-> <<>>, globalRulesPath |-> <<>>, excludePatterns |-> <<>>]
    /\ wretry = [maxAttempts |-> 0, baseDelay |-> 0, maxDelay |-> 0, backoffMultiplier |-> 0]
    /\ calls = [c \in {} |-> IdleCall]
    /\ net = "idle"
    /\ tempDirs = {}
    /\ timers = {}
    /\ now = 0
    /\ ruleFiles = 0

LaterIdle == FlowIdle /\ LastIdle /\ EndIdle

FlowInit ==
    /\ wcfg \in Configs
    /\ wretry \in FlowRetryConfigs
    /\ calls = [c \in OneCall |-> IdleCall]
    /\ net \in {"up", "timeout", "denied"}
    /\ tempDirs = {}
    /\ timers = {}
    /\ now = 0
    /\ ruleFiles = MaxFiles

\* two calls of a host whose configuration is complete, on a network that is up
RaceInit ==
    /\ wcfg \in { cfg \in Configs : ValidateConfig(cfg) }
    /\ wretry \in { cfg \in FlowRetryConfigs : cfg.maxAttempts = 1 }
    /\ calls = [c \in TwoCalls |-> IdleCall]
    /\ net = "up"
    /\ tempDirs = {}
    /\ timers = {}
    /\ now = 0
    /\ ruleFiles = 1

\* the error message of a git call that needs the network and does not get it
NetError == IF net = "timeout" THEN MsgTimeout ELSE MsgDenied

DirExists(dir) == \E d \in tempDirs : d.dir = dir

\* git clone <url> <tempDir>: refused when the destination exists
CloneOutcome(c) ==
    IF net # "up" THEN NetError
    ELSE IF DirExists(calls[c].tempDir) THEN MsgExists
    ELSE Ok

\* git pull in the clone: merges the commits the clone lacks, or fails on them
PullOutcome(c) ==
    IF net # "up" THEN NetError
    ELSE IF calls[c].behind = "conflict" THEN MsgConflict
    ELSE Ok

\* git push from the clone: rejected when the remote has commits the clone lacks
PushOutcome(c) ==
    IF net # "up" THEN NetError
    ELSE IF calls[c].behind # "no" THEN MsgFetchFirst
    ELSE Ok

\* attempt++ without the increment
NextAttemptStuck(k) == k

\* for (...; attempt++)
NextAttempt(k) == k + 1

\* the catch block around git.push() of syncRules: which message it throws
ClassifyPushError(errorMessage) ==
    IF \/ Includes(errorMessage, <<"f", "e", "t", "c", "h", " ", "f", "i", "r", "s", "t">>)
       \/ Includes(errorMessage, <<"r", "e", "j", "e", "c", "t", "e", "d">>)
    THEN "diverged"
    ELSE "generic"

\* a copy loop that goes on after a file failed
CopyFilesContinuing(n, failAt) ==
    [copied |-> IF failAt = 0 THEN n ELSE n - 1, failed |-> FALSE]

\* for (const file of toCopy) await copyFileForSync(src, dst): the files copied
\* when the copy of file failAt throws (0: none does)
CopyFiles(n, failAt) ==
    [copied |-> IF failAt = 0 THEN n ELSE failAt - 1, failed |-> failAt # 0]

Logged(c, step, outcome) == Append(calls[c].log, <<step, outcome>>)

\* ---- the host: command handlers, the auto-sync timer, the save listener ----

Invoke(c, kind, origin) ==
    /\ calls[c].pc = "Idle"
    /\ \A d \in CallIds : d < c => calls[d].pc # "Idle"
    /\ IF kind = "check"
       THEN \E suffix \in RandomSuffixes :
              calls' = [calls EXCEPT ![c] = [IdleCall EXCEPT !.kind = kind, !.origin = origin,
                           !.pc = "CloningRemote", !.attempt = 1,
                           !.tempDir = GetTempDir(now, suffix),
                           !.stamp = now, !.suffix = suffix]]
       ELSE calls' = [calls EXCEPT ![c] = [IdleCall EXCEPT !.kind = kind, !.origin = origin,
                           !.pc = "ValidatingConfig"]]
    /\ UNCHANGED <<wcfg, wretry, net, tempDirs, timers, now, ruleFiles>>
    /\ UNCHANGED <<syncVars, diffVars, copyVars, retryVars, scanVars, firstVars, lastVars, endVars>>

\* the command handlers of syncRules, pullRules, pushRules and checkFirstSync
Command == \E c \in CallIds, kind \in {"sync", "pull", "push", "check"} : Invoke(c, kind, "command")

\* setInterval(autoSync, ...) fires
AutoSyncTimer == \E c \in CallIds : Invoke(c, "sync", "timer")

\* onDidSaveTextDocument(syncIfRuleChanged) on a rule file that is not excluded
RuleSaved == \E c \in CallIds : Invoke(c, "sync", "save")

\* ---- the environment ----

NetChange ==
    /\ \E n \in {"up", "timeout", "denied"} : n # net /\ net' = n
    /\ UNCHANGED <<wcfg, wretry, calls, tempDirs, timers, now, ruleFiles>>
    /\ UNCHANGED <<syncVars, diffVars, copyVars, retryVars, scanVars, firstVars, lastVars, endVars>>

HasClone(c) ==
    calls[c].pc \in {"ComputingChangeSet", "ApplyingChanges", "Staging", "Committing",
                     "Pulling", "Pushing"}

\* the clones of the calls in flight fall behind the remote branch
FallBehind(cs, except, how) ==
    [c \in CallIds |->
        IF c # except /\ HasClone(c) /\ cs[c].behind # "conflict"
        THEN [cs[c] EXCEPT !.behind = how]
        ELSE cs[c]]

\* another machine pushes to the rules repository
RemoteAdvance ==
    /\ \E c \in CallIds : HasClone(c) /\ calls[c].behind = "no"
    /\ \E how \in {"clean", "conflict"} : calls' = FallBehind(calls, 0, how)
    /\ UNCHANGED <<wcfg, wretry, net, tempDirs, timers, now, ruleFiles>>
    /\ UNCHANGED <<syncVars, diffVars, copyVars, retryVars, scanVars, firstVars, lastVars, endVars>>

ClockTick ==
    /\ now < MaxNow
    /\ now' = now + 1
    /\ UNCHANGED <<wcfg, wretry, calls, net, tempDirs, timers, ruleFiles>>
    /\ UNCHANGED <<syncVars, diffVars, copyVars, retryVars, scanVars, firstVars, lastVars, endVars>>

\* ---- one call, from one await to the next ----

\* an outer catch block that logs the error and returns
ThrownSwallowed(r, step, text, cause) ==
    [r EXCEPT !.pc = "Done", !.waiting = FALSE, !.result = OkResult,
              !.log = Append(r.log, <<step, "failed">>)]

\* the outer catch block: throw new Error(`<label>: ${error}`)
Thrown(r, step, text, cause) ==
    [r EXCEPT !.pc = "Errored", !.waiting = FALSE, !.result = ErrorResult(text, cause),
              !.log = Append(r.log, <<step, "failed">>)]

\* what one pass of withRetry's loop does with the outcome of operation()
RetryVerdict(r, out) ==
    IF ~ (r.attempt <= wretry.maxAttempts) THEN "skipped"
    ELSE IF out = Ok THEN "ok"
    ELSE IF ~ IsRetryableError(out) \/ IsLastAttempt(r.attempt, wretry) THEN "throw"
    ELSE "wait"

\* what withRetry throws
RetryCause(verdict, out) == IF verdict = "skipped" THEN MsgUndefined ELSE out

\* a retry that starts over from the commit
WaitingRecommit(r, step) ==
    IF step = "push"
    THEN [r EXCEPT !.pc = "Committing", !.log = Append(r.log, <<step, "retry">>)]
    ELSE [r EXCEPT !.waiting = TRUE,
                   !.log = IF r.log # <<>> /\ r.log[Len(r.log)] = <<step, "retry">>
                           THEN r.log
                           ELSE Append(r.log, <<step, "retry">>)]

\* the catch block of withRetry logs the failed attempt and awaits the delay
Waiting(r, step) ==
    [r EXCEPT !.waiting = TRUE,
              !.log = IF r.log # <<>> /\ r.log[Len(r.log)] = <<step, "retry">>
                      THEN r.log
                      ELSE Append(r.log, <<step, "retry">>)]

\* validateConfig, ensureGitignore, getSyncableRules, getTempDir
ValidateStep(c) ==
    /\ calls[c].pc = "ValidatingConfig"
    /\ IF ValidateConfig(wcfg)
       THEN \E suffix \in RandomSuffixes :
              calls' = [calls EXCEPT ![c] = [@ EXCEPT !.pc = "CloningRemote", !.attempt = 1,
                           !.tempDir = GetTempDir(now, suffix),
                           !.stamp = now, !.suffix = suffix,
                           !.log = Logged(c, "validate", "ok")]]
       ELSE calls' = [calls EXCEPT ![c] = Thrown(@, "validate", "config", MsgConfig)]
    /\ UNCHANGED <<wcfg, wretry, net, tempDirs, timers, now, ruleFiles>>
    /\ UNCHANGED <<syncVars, diffVars, copyVars, retryVars, scanVars, firstVars, lastVars, endVars>>

AfterClone(kind) ==
    CASE kind \in {"sync", "push"} -> "ComputingChangeSet"
      [] kind = "pull" -> "CopyingToLocal"
      [] OTHER -> "CleaningUp"

\* withRetry(git.clone(rulesRepoUrl, tempDir)); checkFirstSyncStatus catches its failure
CloneStep(c) ==
    /\ calls[c].pc = "CloningRemote"
    /\ ~ calls[c].waiting
    /\ LET r == calls[c]
           out == CloneOutcome(c)
           verdict == RetryVerdict(r, out)
       IN  /\ calls' = [calls EXCEPT ![c] =
                 CASE verdict = "ok" ->
                        [r EXCEPT !.pc = AfterClone(r.kind), !.behind = "no",
                                  !.log = Logged(c, "clone", "ok")]
                   [] verdict = "wait" -> Waiting(r, "clone")
                   [] OTHER ->
                        IF r.kind = "check"
                        THEN [r EXCEPT !.pc = "Done", !.result = OkResult,
                                       !.log = Logged(c, "clone", "failed")]
                        ELSE Thrown(r, "clone", "raw", RetryCause(verdict, out))]
           /\ tempDirs' = IF verdict = "ok"
                          THEN tempDirs \cup {[dir |-> r.tempDir, by |-> c]}
                          ELSE tempDirs
    /\ UNCHANGED <<wcfg, wretry, net, timers, now, ruleFiles>>
    /\ UNCHANGED <<syncVars, diffVars, copyVars, retryVars, scanVars, firstVars, lastVars, endVars>>

\* await new Promise(resolve => setTimeout(resolve, delay)), then attempt++
BackoffElapsed(c) ==
    /\ calls[c].waiting
    /\ calls' = [calls EXCEPT ![c] = [@ EXCEPT !.waiting = FALSE, !.attempt = NextAttempt(@)]]
    /\ UNCHANGED <<wcfg, wretry, net, tempDirs, timers, now, ruleFiles>>
    /\ UNCHANGED <<syncVars, diffVars, copyVars, retryVars, scanVars, firstVars, lastVars, endVars>>

\* getAllFilesWithHash on both sides and the two comparison loops
ComputeStep(c) ==
    /\ calls[c].pc = "ComputingChangeSet"
    /\ \E n \in 0..ruleFiles :
          calls' = [calls EXCEPT ![c] = [@ EXCEPT !.pc = "ApplyingChanges", !.toCopy = n,
                       !.log = Logged(c, "compute", "ok")]]
    /\ UNCHANGED <<wcfg, wretry, net, tempDirs, timers, now, ruleFiles>>
    /\ UNCHANGED <<syncVars, diffVars, copyVars, retryVars, scanVars, firstVars, lastVars, endVars>>

\* the copy loop over toCopy; the copy of file badFile throws (0: none does)
ApplyStep(c) ==
    /\ calls[c].pc = "ApplyingChanges"
    /\ \E failAt \in 0..calls[c].toCopy :
          LET r == calls[c]
              res == CopyFiles(r.toCopy, failAt)
          IN  calls' = [calls EXCEPT ![c] =
                  IF res.failed
                  THEN [Thrown(r, "copy", "raw", MsgCopy) EXCEPT !.copied = res.copied,
                                                                 !.badFile = failAt]
                  ELSE [r EXCEPT !.pc = "Staging", !.copied = res.copied, !.badFile = failAt,
                                 !.log = Logged(c, "copy", "ok")]]
    /\ UNCHANGED <<wcfg, wretry, net, tempDirs, timers, now, ruleFiles>>
    /\ UNCHANGED <<syncVars, diffVars, copyVars, retryVars, scanVars, firstVars, lastVars, endVars>>

\* git.cwd, git.status, git.add('.'), git.status: statusAfterAdd.files.length > 0
StageStep(c) ==
    /\ calls[c].pc = "Staging"
    /\ \E ok \in BOOLEAN, staged \in (IF calls[c].copied > 0 THEN BOOLEAN ELSE {FALSE}) :
          calls' = [calls EXCEPT ![c] =
              IF ~ ok THEN Thrown(@, "add", "raw", MsgLocalGit)
              ELSE IF staged
                   THEN [@ EXCEPT !.pc = "Committing", !.log = Logged(c, "add", "ok")]
                   ELSE [@ EXCEPT !.pc = "CleaningUp", !.log = Logged(c, "add", "nothing")]]
    /\ UNCHANGED <<wcfg, wretry, net, tempDirs, timers, now, ruleFiles>>
    /\ UNCHANGED <<syncVars, diffVars, copyVars, retryVars, scanVars, firstVars, lastVars, endVars>>

\* git.commit(commitMessage)
CommitStep(c) ==
    /\ calls[c].pc = "Committing"
    /\ \E ok \in BOOLEAN :
          calls' = [calls EXCEPT ![c] =
              IF ok
              THEN [@ EXCEPT !.pc = "Pulling", !.attempt = 1, !.log = Logged(c, "commit", "ok")]
              ELSE Thrown(@, "commit", "raw", MsgLocalGit)]
    /\ UNCHANGED <<wcfg, wretry, net, tempDirs, timers, now, ruleFiles>>
    /\ UNCHANGED <<syncVars, diffVars, copyVars, retryVars, scanVars, firstVars, lastVars, endVars>>

\* a pull failure that ends the call
PullFailedFatal(r, cause) == Thrown(r, "pull", "raw", cause)

\* catch (pullError) { console.log(...) }
PullFailed(r, cause) ==
    [r EXCEPT !.pc = "Pushing", !.attempt = 1, !.waiting = FALSE,
              !.log = Append(r.log, <<"pull", "failed">>)]

\* git.pull(), under withRetry in pushRules
PullStep(c) ==
    /\ calls[c].pc = "Pulling"
    /\ ~ calls[c].waiting
    /\ LET r == calls[c]
           out == PullOutcome(c)
           verdict == IF r.kind = "push" THEN RetryVerdict(r, out)
                      ELSE IF out = Ok THEN "ok" ELSE "throw"
       IN  calls' = [calls EXCEPT ![c] =
               CASE verdict = "ok" ->
                      [r EXCEPT !.pc = "Pushing", !.attempt = 1, !.behind = "no",
                                !.log = Logged(c, "pull", "ok")]
                 [] verdict = "wait" -> Waiting(r, "pull")
                 [] OTHER -> PullFailed(r, RetryCause(verdict, out))]
    /\ UNCHANGED <<wcfg, wretry, net, tempDirs, timers, now, ruleFiles>>
    /\ UNCHANGED <<syncVars, diffVars, copyVars, retryVars, scanVars, firstVars, lastVars, endVars>>

\* what a failed push throws: syncRules classifies the message, pushRules
\* rethrows what withRetry threw
PushError(kind, cause) ==
    IF kind = "sync" THEN ErrorResult(ClassifyPushError(cause), cause)
    ELSE ErrorResult("raw", cause)

\* git.push(), under withRetry in pushRules
PushStep(c) ==
    /\ calls[c].pc = "Pushing"
    /\ ~ calls[c].waiting
    /\ LET r == calls[c]
           out == PushOutcome(c)
           verdict == IF r.kind = "push" THEN RetryVerdict(r, out)
                      ELSE IF out = Ok THEN "ok" ELSE "throw"
       IN  CASE verdict = "ok" ->
                  \E how \in {"clean", "conflict"} :
                     calls' = [FallBehind(calls, c, how) EXCEPT ![c] =
                                  [r EXCEPT !.pc = "CleaningUp", !.pushed = TRUE,
                                            !.log = Logged(c, "push", "ok")]]
             [] verdict = "wait" -> calls' = [calls EXCEPT ![c] = Waiting(r, "push")]
             [] OTHER ->
                  calls' = [calls EXCEPT ![c] =
                      [Thrown(r, "push", "raw", out) EXCEPT
                          !.result = PushError(r.kind, RetryCause(verdict, out))]]
    /\ UNCHANGED <<wcfg, wretry, net, tempDirs, timers, now, ruleFiles>>
    /\ UNCHANGED <<syncVars, diffVars, copyVars, retryVars, scanVars, firstVars, lastVars, endVars>>

\* pullRules: the loop over the top-level entries of the clone
CopyToLocalStep(c) ==
    /\ calls[c].pc = "CopyingToLocal"
    /\ \E ok \in BOOLEAN :
          calls' = [calls EXCEPT ![c] =
              IF ok
              THEN [@ EXCEPT !.pc = "CleaningUp", !.log = Logged(c, "copy", "ok")]
              ELSE Thrown(@, "copy", "raw", MsgCopy)]
    /\ UNCHANGED <<wcfg, wretry, net, tempDirs, timers, now, ruleFiles>>
    /\ UNCHANGED <<syncVars, diffVars, copyVars, retryVars, scanVars, firstVars, lastVars, endVars>>

\* fs.rmSync(tempDir) before the return
ScheduleCleanupInline(pending, dirs, dir, c) ==
    [timers |-> pending, tempDirs |-> { d \in dirs : d.dir # dir }]

\* setTimeout(() => { try { fs.rmSync(tempDir, ...) } catch (e) { ... } }, 2000)
ScheduleCleanup(pending, dirs, dir, c) ==
    [timers |-> pending \cup {[dir |-> dir, by |-> c]}, tempDirs |-> dirs]

\* setTimeout(...), the stats and the return, in one synchronous run
ReturnStep(c) ==
    /\ calls[c].pc = "CleaningUp"
    /\ LET after == ScheduleCleanup(timers, tempDirs, calls[c].tempDir, c)
       IN  /\ timers' = after.timers
           /\ tempDirs' = after.tempDirs
    /\ calls' = [calls EXCEPT ![c] = [@ EXCEPT !.pc = "Done", !.result = OkResult,
                     !.log = Logged(c, "schedule", "ok")]]
    /\ UNCHANGED <<wcfg, wretry, net, now, ruleFiles>>
    /\ UNCHANGED <<syncVars, diffVars, copyVars, retryVars, scanVars, firstVars, lastVars, endVars>>

\* the callback of setTimeout: fs.rmSync(tempDir, {recursive: true, force: true}),
\* whose failure is logged
CleanupTimer ==
    /\ \E t \in timers, ok \in BOOLEAN :
          /\ timers' = timers \ {t}
          /\ tempDirs' = IF ok THEN { d \in tempDirs : d.dir # t.dir } ELSE tempDirs
    /\ UNCHANGED <<wcfg, wretry, calls, net, now, ruleFiles>>
    /\ UNCHANGED <<syncVars, diffVars, copyVars, retryVars, scanVars, firstVars, lastVars, endVars>>

CallStep(c) ==
    \/ ValidateStep(c)
    \/ CloneStep(c)
    \/ BackoffElapsed(c)
    \/ ComputeStep(c)
    \/ ApplyStep(c)
    \/ StageStep(c)
    \/ CommitStep(c)
    \/ PullStep(c)
    \/ PushStep(c)
    \/ CopyToLocalStep(c)
    \/ ReturnStep(c)

FlowNext ==
    \/ Command
    \/ AutoSyncTimer
    \/ RuleSaved
    \/ NetChange
    \/ RemoteAdvance
    \/ ClockTick
    \/ CleanupTimer
    \/ \E c \in CallIds : CallStep(c)

\* the synchronisation engine: calls of syncRules, pushRules and pullRules on one
\* workspace, one after the other, with edits on both sides between them
Init == SyncInit /\ DiffIdle /\ CopyIdle /\ RetryIdle /\ ScanIdle /\ FirstIdle /\ LaterIdle

Next == SyncNext

Spec == Init /\ [][Next]_vars

\* the diff applied to every pair of FingerprintMaps over DiffKeys
InitDiff == SyncIdle /\ DiffInit /\ CopyIdle /\ RetryIdle /\ ScanIdle /\ FirstIdle /\ LaterIdle

SpecDiff == InitDiff /\ [][Diff]_vars

-----------------------------------------------------------------------------
(* Properties *)

Range(seq) == { seq[i] : i \in 1..Len(seq) }

OnlyLocal(lf, rf) == (DOMAIN lf) \ (DOMAIN rf)
OnlyRepo(lf, rf) == (DOMAIN rf) \ (DOMAIN lf)
Differing(lf, rf) == { k \in (DOMAIN lf) \cap (DOMAIN rf) : lf[k] # rf[k] }
Equal(lf, rf) == { k \in (DOMAIN lf) \cap (DOMAIN rf) : lf[k] = rf[k] }

\* C1: in a sync or push call whose local FingerprintMap is empty while the
\* remote one is not, no file of the remote tree is removed, in the clone or in
\* the repository, and the repository holds as many files after the call as
\* before it.
C1_DeletionProtection ==
    (/\ pc \in {"committing", "done", "errored"}
     /\ op \in {"sync", "push"}
     /\ DOMAIN localFiles = {}
     /\ DOMAIN repoFiles # {})
    => /\ DOMAIN remoteAtStart \subseteq DOMAIN clone
       /\ DOMAIN remoteAtStart \subseteq DOMAIN remote
       /\ Cardinality(DOMAIN remote) = Cardinality(DOMAIN remoteAtStart)

\* a finished sync of a workspace that holds only an excluded rule file against
\* a repository with two files, both deletion candidates
C1_Witness ==
    /\ pc = "done"
    /\ op = "sync"
    /\ DOMAIN local # {}
    /\ DOMAIN localFiles = {}
    /\ Cardinality(DOMAIN repoFiles) >= 2
    /\ Len(toDelete) >= 2

\* C2: a syncRules that follows a successful syncRules, with no local edit and
\* no other writer in between, returns added = modified = deleted = total = 0.
C2_SyncIdempotent ==
    (pc = "done" /\ op = "sync" /\ wasQuiet) => stats = NoStats

\* C3: toCopy and toDelete are disjoint, and a key with equal digests in both
\* maps is in neither.
C3_DiffDisjoint ==
    dpc = "diffed" =>
        /\ Range(dChange.toCopy) \cap Range(dChange.toDelete) = {}
        /\ \A k \in Equal(dLocal, dRepo) :
              k \notin Range(dChange.toCopy) /\ k \notin Range(dChange.toDelete)

\* a diff with something to copy, something to delete and an unchanged file
C3_Witness ==
    /\ dpc = "diffed"
    /\ dChange.toCopy # <<>>
    /\ dChange.toDelete # <<>>
    /\ Equal(dLocal, dRepo) # {}

\* C4: toCopy lists exactly the keys only in local and the keys in both with
\* differing digests, toDelete exactly the keys only in remote, each once, and
\* added, modified, deleted count those three sets, total being their sum.
C4_DiffExact ==
    dpc = "diffed" =>
        /\ Range(dChange.toCopy) = OnlyLocal(dLocal, dRepo) \cup Differing(dLocal, dRepo)
        /\ Len(dChange.toCopy) = Cardinality(Range(dChange.toCopy))
        /\ Range(dChange.toDelete) = OnlyRepo(dLocal, dRepo)
        /\ Len(dChange.toDelete) = Cardinality(Range(dChange.toDelete))
        /\ dStats.added = Cardinality(OnlyLocal(dLocal, dRepo))
        /\ dStats.modified = Cardinality(Differing(dLocal, dRepo))
        /\ dStats.deleted = Cardinality(OnlyRepo(dLocal, dRepo))
        /\ dStats.total = dStats.added + dStats.modified + dStats.deleted

\* a diff that adds, modifies and deletes at once
C4_Witness ==
    /\ dpc = "diffed"
    /\ dStats.added >= 1
    /\ dStats.modified >= 1
    /\ dStats.deleted >= 1
    /\ dStats.total >= 4

\* all three required settings are non-empty
ConfigComplete(cfg) ==
    cfg.rulesRepoUrl # <<>> /\ cfg.globalRulesPath # <<>> /\ cfg.excludePatterns # <<>>

\* C11: a sync, pull, push or first-sync assessment call whose configuration
\* lacks the repository url, the rule root path or the exclusion patterns ends
\* in error without reaching the clone; validateConfig is valid exactly for the
\* complete configurations and names an error for every other one.
C11_FailFastValidation ==
    /\ (op \in {"sync", "pull", "push", "check"} /\ ~ ConfigComplete(config))
       => pc = "errored"
    /\ ValidateConfig(config) = ConfigComplete(config)
    /\ (ValidationError(config) = "undefined") = ConfigComplete(config)

\* the path lies in a top-level folder named by an exclusion pattern
InExcludedFolder(p, patterns) == Len(p) >= 2 /\ SeqIncludes(patterns, p[1])

\* the path is excluded from the diff: by its top-level folder, or flagged by
\* shouldExcludeFromRulesRepo
ExcludedFromDiff(p) ==
    \/ InExcludedFolder(p, config.excludePatterns)
    \/ ShouldExcludeFromRulesRepo(config.globalRulesPath \o p, config.excludePatterns)

\* C15: during a sync or push call no excluded path is a key of the local or of
\* the remote FingerprintMap, none is in toCopy or toDelete, and the clone holds
\* at every excluded path exactly what git cloned there.
C15_ExcludedNeverDiffed ==
    op \in {"sync", "push"} =>
        \A p \in (DOMAIN local) \cup (DOMAIN clone) \cup (DOMAIN remote) :
            ExcludedFromDiff(p) =>
                /\ p \notin DOMAIN localFiles
                /\ p \notin DOMAIN repoFiles
                /\ p \notin Range(toCopy)
                /\ p \notin Range(toDelete)
                /\ (p \in DOMAIN clone) = (p \in DOMAIN cloneBase)
                /\ p \in DOMAIN clone => clone[p] = cloneBase[p]

\* a sync that copied something while the excluded my-project/l.md differs
\* between the workspace and the repository
C15_Witness ==
    /\ pc = "done"
    /\ op = "sync"
    /\ toCopy # <<>>
    /\ PathLocalL \in DOMAIN local
    /\ PathLocalL \in DOMAIN clone
    /\ local[PathLocalL] # clone[PathLocalL]

\* the path belongs to a global rule
IsGlobalPath(p) == ~ ExcludedFromDiff(p)

\* C17: after a successful sync every global rule file the remote held is in
\* the local tree, and every global rule file of the local tree is in the
\* remote.
C17_SyncBidirectional ==
    (pc = "done" /\ op = "sync") =>
        /\ \A p \in DOMAIN remoteAtStart : IsGlobalPath(p) => p \in DOMAIN local
        /\ \A p \in DOMAIN local : IsGlobalPath(p) => p \in DOMAIN remote

\* C18: no step of a pull call creates, removes or changes a local file whose
\* top-level name is in excludePatterns, and the copying step leaves every file
\* of the clone under a top-level entry outside excludePatterns in the local
\* tree with the clone's content.
C18_PullKeepsLocalRules ==
    [][op = "pull" =>
         /\ \A p \in (DOMAIN local) \cup (DOMAIN local') :
               SeqIncludes(config.excludePatterns, p[1]) =>
                   /\ p \in DOMAIN local
                   /\ p \in DOMAIN local'
                   /\ local'[p] = local[p]
         /\ pc = "pulling" =>
               \A p \in DOMAIN clone :
                   ~ SeqIncludes(config.excludePatterns, p[1]) =>
                       p \in DOMAIN local' /\ local'[p] = clone[p]]_vars

\* a finished pull from a repository that holds my-project/l.md with another
\* content than the workspace's, next to a global file that was copied
C18_Witness ==
    /\ pc = "done"
    /\ op = "pull"
    /\ PathLocalL \in DOMAIN clone
    /\ PathLocalL \in DOMAIN local
    /\ local[PathLocalL] # clone[PathLocalL]
    /\ PathCoreA \in DOMAIN clone
    /\ stats.added >= 1

\* C19: checkFirstSyncStatus returns isFirstSync = true exactly when neither
\* the local nor the remote rule directory holds anything, and with a non-empty
\* local and an empty remote directory it returns hasLocalRules = true and
\* hasRemoteRules = false.
C19_FirstSyncClassification ==
    (pc = "done" /\ op = "check") =>
        /\ info.isFirstSync = (DOMAIN local = {} /\ DOMAIN remoteAtStart = {})
        /\ (DOMAIN local # {} /\ DOMAIN remoteAtStart = {})
           => (info.hasLocalRules /\ ~ info.hasRemoteRules)

\* the name of a file without its extension
WithoutExtension(name) == IF Len(name) >= 2 THEN SubSeq(name, 1, Len(name) - 1) ELSE name

\* the name of the rule (the top-level child of the rule root) a file belongs to
RuleName(rel) == IF Len(rel) = 1 THEN WithoutExtension(rel[1]) ELSE rel[1]

\* the file belongs to a local (excluded) rule
IsLocalRuleFile(rel, patterns) == SeqIncludes(patterns, RuleName(rel))

\* the names of the rules of a list, and how often a name occurs in it
RuleNames(rules) == { rules[i].name : i \in 1..Len(rules) }
Occurrences(rules, name) == Cardinality({ i \in 1..Len(rules) : rules[i].name = name })

C13_RootFileName ==
    (spc = "scanned" /\ xpc = "checked") =>
        \A q \in DOMAIN sTree :
            Len(q) = 1 =>
                /\ (q[1] \in RuleNames(sRules.localRules))
                      = SeqIncludes(sPatterns, WithoutExtension(q[1]))
                /\ (q[1] \in RuleNames(sRules.localRules))
                      = (DefaultRulesPath \o q \in sExcluded)

\* C14: a scan of a rule root that does not exist, or exists and is empty,
\* returns empty localRules and empty globalRules and raises no error.
C14_EmptyScan ==
    (spc = "scanned" /\ (~ sExists \/ DOMAIN sTree = {})) =>
        /\ sRules.localRules = <<>>
        /\ sRules.globalRules = <<>>
        /\ ~ sRules.error
        /\ sSyncable = <<>>

\* the scan of a workspace without a rule root
C14_Witness ==
    /\ spc = "scanned"
    /\ ~ sExists
    /\ sRules = NoRules

\* C16: shouldExclude flags a path under the rule root exactly when its first
\* component below the rule root (the folder, or for a file directly in the
\* rule root its name without the extension) is in excludePatterns, at any
\* depth; it flags no path outside the rule root.
C16_ExclusionPredicate ==
    xpc = "checked" =>
        /\ \A q \in DOMAIN sTree :
              (DefaultRulesPath \o q \in sExcluded) = SeqIncludes(sPatterns, RuleName(q))
        /\ \A q \in OutsidePaths : q \notin sExcluded

\* the file names that occur in a tree
BasenamesOf(tree) == { q[Len(q)] : q \in DOMAIN tree }

\* C20: when the assessment finds rules on both sides, conflicts lists exactly
\* the file names that occur on both sides, whatever their folders and
\* contents, each once; when it finds a side without rules, conflicts is empty.
C20_FirstSyncConflicts ==
    apc = "assessed" =>
        IF aInfo.hasLocalRules /\ aInfo.hasRemoteRules
        THEN /\ Range(aInfo.conflicts) = BasenamesOf(aLocal) \cap BasenamesOf(aRemote)
             /\ Len(aInfo.conflicts) = Cardinality(Range(aInfo.conflicts))
        ELSE aInfo.conflicts = <<>>

BothParse == MatchFrontmatter(fSrc) # <<>> /\ MatchFrontmatter(fDst) # <<>>

\* C5: copyFileForSync on a global markdown document whose destination exists,
\* source and destination both parsing into (metadata block, body), leaves the
\* destination's metadata block followed by the source's body, character for
\* character: the result parses into exactly that block and that body.
C5_FrontmatterMerge ==
    (/\ fpc = "synced"
     /\ ~ IsLocalRuleFile(fRel, fPatterns)
     /\ IsMarkdown(fRel)
     /\ fDstExists
     /\ BothParse)
    => /\ fOut = MatchFrontmatter(fDst)[1] \o MatchFrontmatter(fSrc)[2]
       /\ MatchFrontmatter(fOut) = <<MatchFrontmatter(fDst)[1], MatchFrontmatter(fSrc)[2]>>

\* C6: copyFileForSync overwrites the destination with the source's bytes when
\* the destination did not exist, or the file is no .md/.mdc document, or it
\* belongs to a local rule, or source or destination has no metadata block; the
\* merging write runs only when none of these holds.
C6_OverwriteCases ==
    fpc = "synced" =>
        LET overwriteCase == \/ ~ fDstExists
                             \/ ~ IsMarkdown(fRel)
                             \/ IsLocalRuleFile(fRel, fPatterns)
                             \/ ~ BothParse
        IN  /\ overwriteCase => (fOut = fSrc /\ fBranch # "merge")
            /\ fBranch = "merge" => ~ overwriteCase

\* the root file my-project.md, a local rule, overwritten although both sides
\* carry a metadata block
C6_Witness ==
    /\ fpc = "synced"
    /\ fRel = PathRootMp
    /\ fDstExists
    /\ BothParse
    /\ MatchFrontmatter(fDst)[1] # MatchFrontmatter(fSrc)[1]
    /\ fOut = fSrc

\* C7: after a pull-style copy (copyFile, or copyDirectory reaching the file)
\* the destination holds the source's bytes, whatever it held before.
C7_PullOverwrites ==
    fpc \in {"pulled", "dirpulled"} => fOut = fSrc

\* copyDirectory over a file in a folder whose destination carried another
\* metadata block
C7_Witness ==
    /\ fpc = "dirpulled"
    /\ Len(fRel) = 2
    /\ fDstExists
    /\ BothParse
    /\ MatchFrontmatter(fDst)[1] # MatchFrontmatter(fSrc)[1]
    /\ MatchFrontmatter(fDst)[2] # <<>>
    /\ fOut = fSrc

\* the messages of ErrorMessages that contain a transient substring: 'timeout'
\* and 'fetch first'; 'Permission denied' (capital P) and 'conflict' contain none
TransientMessages == {MsgTimeout, MsgFetchFirst}

\* every invocation of the run so far raised a transient error
AllTransient ==
    \A k \in 1..Len(rLog) : rLog[k] \in TransientMessages

\* C8: a run with maxAttempts >= 1 whose every invocation raised a retryable
\* error has, once it ended, invoked the operation exactly maxAttempts times,
\* waited exactly maxAttempts - 1 times and thrown the error of the last
\* invocation; under the default configuration the waits are 1000 then 2000.
C8_RetryAttempts ==
    (rpc = "thrown" /\ rcfg.maxAttempts >= 1 /\ AllTransient)
    => /\ Len(rLog) = rcfg.maxAttempts
       /\ Len(rDelays) = rcfg.maxAttempts - 1
       /\ rThrown = <<rcfg.maxAttempts, rLog[rcfg.maxAttempts]>>
       /\ rcfg = DefaultRetryConfig => rDelays = <<1000, 2000>>

\* the default configuration exhausted by retryable errors
C8_Witness ==
    /\ rpc = "thrown"
    /\ rcfg = DefaultRetryConfig
    /\ AllTransient
    /\ Len(rLog) = 3

\* C9: an invocation that raised an error matching none of the retryable
\* substrings, at whatever attempt, or a retryable one at attempt maxAttempts,
\* is the last invocation of the run: its error is what the run threw and no
\* delay was scheduled after it.
C9_RetryPropagation ==
    \A k \in 1..Len(rLog) :
        (rLog[k] # Ok /\ (rLog[k] \notin TransientMessages \/ k = rcfg.maxAttempts))
        => /\ k = Len(rLog)
           /\ rpc = "thrown"
           /\ rThrown = <<k, rLog[k]>>
           /\ Len(rDelays) = k - 1

\* a non-retryable error on the second attempt of a run that had attempts left
C9_Witness ==
    /\ rpc = "thrown"
    /\ Len(rLog) = 2
    /\ rLog[2] = MsgDenied
    /\ rcfg.maxAttempts >= 3
    /\ Len(rDelays) = 1

\* base * multiplier^e by repeated multiplication
RECURSIVE Scaled(_, _, _)
Scaled(base, multiplier, e) ==
    IF e = 0 THEN base ELSE Scaled(base * multiplier, multiplier, e - 1)

\* C10: the k-th delay of a run, scheduled after the retryable failure of
\* attempt k < maxAttempts, is min(baseDelay * backoffMultiplier^(k-1), maxDelay);
\* no delay exceeds maxDelay and, for backoffMultiplier >= 1, the delays of the
\* run are non-decreasing.
C10_BackoffDelay ==
    \A k \in 1..Len(rDelays) :
        /\ k < rcfg.maxAttempts
        /\ rLog[k] \in TransientMessages
        /\ LET uncapped == Scaled(rcfg.baseDelay, rcfg.backoffMultiplier, k - 1)
           IN  rDelays[k] = IF uncapped <= rcfg.maxDelay THEN uncapped ELSE rcfg.maxDelay
        /\ rDelays[k] <= rcfg.maxDelay
        /\ (rcfg.backoffMultiplier >= 1 /\ k > 1) => rDelays[k - 1] <= rDelays[k]

\* a run whose second delay grew up to the cap and whose third stayed there
C10_Witness ==
    /\ Len(rDelays) >= 3
    /\ rDelays[1] < rDelays[2]
    /\ rDelays[2] = rcfg.maxDelay
    /\ rDelays[3] = rcfg.maxDelay

\* one copy applied to every file of CopyPaths and every pair of contents
InitCopy == SyncIdle /\ DiffIdle /\ CopyInit /\ RetryIdle /\ ScanIdle /\ FirstIdle /\ LaterIdle

SpecCopy == InitCopy /\ [][CopyNext]_vars

\* one run of withRetry for every configuration of RetryConfigs
InitRetry == SyncIdle /\ DiffIdle /\ CopyIdle /\ RetryInit /\ ScanIdle /\ FirstIdle /\ LaterIdle

SpecRetry == InitRetry /\ [][RetryNext]_vars

\* one scan and one exclusion check for every tree of ScanTrees
InitScan == SyncIdle /\ DiffIdle /\ CopyIdle /\ RetryIdle /\ ScanInit /\ FirstIdle /\ LaterIdle

SpecScan == InitScan /\ [][ScanNext]_vars

\* one first-sync assessment for every pair of trees of FirstTrees
InitFirst == SyncIdle /\ DiffIdle /\ CopyIdle /\ RetryIdle /\ ScanIdle /\ FirstInit /\ LaterIdle

SpecFirst == InitFirst /\ [][FirstAssess]_vars

-----------------------------------------------------------------------------
\* Claims about the calls step by step

LogOf(c) == calls[c].log
HasEntry(c, entry) == \E i \in 1..Len(LogOf(c)) : LogOf(c)[i] = entry
IsSyncOrPush(c) == calls[c].kind \in {"sync", "push"}

\* the messages of a push git rejected because the remote is ahead
RejectionMessages == {MsgFetchFirst}

\* C22: whenever the push step of a sync or push call fails, the call ends in
\* error and the error has one of two kinds: diverged-history when the failure
\* message denotes a rejected push, generic otherwise.
C22_PushFailureClassification ==
    \A c \in CallIds :
        (IsSyncOrPush(c) /\ HasEntry(c, <<"push", "failed">>)) =>
            /\ calls[c].pc = "Errored"
            /\ calls[c].result.outcome = "error"
            /\ calls[c].result.text =
                  IF calls[c].result.cause \in RejectionMessages THEN "diverged" ELSE "generic"

\* the place of a step in the order validation, clone, change set, copy, add,
\* commit, pull, push, cleanup
StepRank(step) ==
    CASE step = "validate" -> 1
      [] step = "clone" -> 2
      [] step = "compute" -> 3
      [] step = "copy" -> 4
      [] step = "add" -> 5
      [] step = "commit" -> 6
      [] step = "pull" -> 7
      [] step = "push" -> 8
      [] OTHER -> 9

\* every step follows the step before it in the order, or repeats it after a retry
StepwiseOrder(log) ==
    \A j \in 1..Len(log) :
        IF j = 1 THEN StepRank(log[j][1]) = 1
        ELSE \/ StepRank(log[j][1]) = StepRank(log[j - 1][1]) + 1 /\ log[j - 1][2] = "ok"
             \/ StepRank(log[j][1]) = StepRank(log[j - 1][1]) + 1 /\ log[j - 1] = <<"pull", "failed">>
             \/ log[j][1] = log[j - 1][1] /\ log[j - 1][2] = "retry"
             \/ log[j][1] = "schedule" /\ log[j - 1] = <<"add", "nothing">>

\* the cleanup is scheduled right after the push or after the decision that
\* there is nothing to commit
ScheduledAfterPush(log) ==
    \A j \in 1..Len(log) :
        log[j][1] = "schedule" => j > 1 /\ log[j - 1] \in {<<"push", "ok">>, <<"add", "nothing">>}

\* a failed step, other than the exempted ones, is the last step of its call,
\* which is Errored
FailureEndsCall(c, exempted) ==
    \A j \in 1..Len(LogOf(c)) :
        (LogOf(c)[j][2] = "failed" /\ LogOf(c)[j][1] \notin exempted) =>
            j = Len(LogOf(c)) /\ calls[c].pc = "Errored"

\* C25: in a sync or push call validation precedes the clone, the clone the
\* change set, the copies the commit, and commit, pull and push come in that
\* order; cleanup is scheduled only after the push or after the decision that
\* there is nothing to commit; an error at any step ends the call in Errored
\* and no later step runs.
C25_StepOrder ==
    \A c \in CallIds :
        IsSyncOrPush(c) =>
            /\ StepwiseOrder(LogOf(c))
            /\ ScheduledAfterPush(LogOf(c))
            /\ FailureEndsCall(c, {})

\* C25 as amended: the same, except that a failure of the pull step does not
\* end the call.
C25_StepOrderAmended ==
    \A c \in CallIds :
        IsSyncOrPush(c) =>
            /\ StepwiseOrder(LogOf(c))
            /\ ScheduledAfterPush(LogOf(c))
            /\ FailureEndsCall(c, {"pull"})

C25_Witness ==
    \E c \in CallIds :
        /\ calls[c].kind = "push"
        /\ calls[c].pc = "Errored"
        /\ HasEntry(c, <<"clone", "retry">>)
        /\ HasEntry(c, <<"commit", "ok">>)
        /\ HasEntry(c, <<"pull", "ok">>)
        /\ LogOf(c)[Len(LogOf(c))] = <<"push", "failed">>

\* C26: a failure of the pull step that precedes the push is swallowed: the
\* step after it is the push, attempted as after a pull that succeeded, and
\* the call does not end in error at the pull.
C26_PullFailureSwallowed ==
    \A c \in CallIds :
        IsSyncOrPush(c) =>
            \A j \in 1..Len(LogOf(c)) :
                LogOf(c)[j] = <<"pull", "failed">> =>
                    IF j = Len(LogOf(c))
                    THEN calls[c].pc = "Pushing" /\ calls[c].attempt = 1 /\ ~ calls[c].waiting
                    ELSE LogOf(c)[j + 1][1] = "push"

C26_Witness ==
    \E c \in CallIds :
        /\ calls[c].kind = "push"
        /\ HasEntry(c, <<"pull", "retry">>)
        /\ HasEntry(c, <<"pull", "failed">>)
        /\ HasEntry(c, <<"push", "ok">>)
        /\ calls[c].pc = "Done"

\* C27: if the copy of one file of toCopy fails, the sync or push call ends in
\* error: the files after it are not copied, nothing is added, committed,
\* pulled or pushed, and the remote is left as it was.
C27_CopyFailureAborts ==
    \A c \in CallIds :
        (IsSyncOrPush(c) /\ calls[c].badFile # 0) =>
            /\ calls[c].pc = "Errored"
            /\ calls[c].result.outcome = "error"
            /\ calls[c].copied = calls[c].badFile - 1
            /\ LogOf(c)[Len(LogOf(c))] = <<"copy", "failed">>
            /\ ~ calls[c].pushed

C27_Witness ==
    \E c \in CallIds :
        /\ calls[c].kind = "sync"
        /\ calls[c].toCopy = 2
        /\ calls[c].badFile = 2
        /\ calls[c].copied = 1
        /\ calls[c].pc = "Errored"

\* C28: the cleanup of the temporary clone is pending only for a call that has
\* its result, removes the clone only after that call has returned, and,
\* whether it succeeds or fails, leaves every call and its result as they were.
C28_CleanupDeferred ==
    [][ /\ \A t \in timers' : calls'[t.by].pc = "Done" /\ calls'[t.by].result = OkResult
        /\ \A d \in tempDirs \ tempDirs' : calls[d.by].pc = "Done"
        /\ (timers' # timers /\ timers' \subseteq timers) => calls' = calls ]_vars

C28_Witness ==
    \E c \in CallIds :
        /\ calls[c].pc = "Done"
        /\ calls[c].result = OkResult
        /\ calls[c].kind = "sync"
        /\ timers = {}
        /\ DirExists(calls[c].tempDir)

Limit(n) == IF n < 1 THEN 1 ELSE n

\* C30: every sync, pull or push call reaches Done or Errored, given that
\* every git call returns or fails; no step is attempted more than maxAttempts
\* times, and while the network keeps failing with a transient error the call
\* ends in Errored.
C30_Termination ==
    /\ \A c \in OneCall : (calls[c].kind \in {"sync", "pull", "push"}) ~> (calls[c].pc \in Terminal)
    /\ [](\A c \in OneCall : calls[c].attempt <= Limit(wretry.maxAttempts))
    /\ \A c \in OneCall :
          [](net = "timeout") =>
              ((calls[c].kind \in {"sync", "pull", "push"}) ~> (calls[c].pc = "Errored"))

C30_Witness ==
    \E c \in CallIds :
        /\ calls[c].kind = "push"
        /\ calls[c].pc = "Errored"
        /\ wretry.maxAttempts = 2
        /\ calls[c].attempt = 2
        /\ HasEntry(c, <<"clone", "retry">>)
        /\ calls[c].result.cause = MsgTimeout

CallsInFlight == { c \in CallIds : InFlight(c) }

\* C23: the calls on one workspace are serialized by their caller: at most one
\* call is in flight at any time, and an auto-sync started by the timer or by
\* a save is never in flight together with an earlier call.
C23_CallsSerialized ==
    /\ Cardinality(CallsInFlight) <= 1
    /\ \A c \in CallsInFlight :
          calls[c].origin \in {"timer", "save"} => \A d \in CallsInFlight : d = c

Named(c) == calls[c].tempDir # NoDir

\* the deferred cleanups never aim at a directory another call cloned into,
\* and no directory holds the clones of two calls
CleanupsOwnClone ==
    /\ \A t \in timers, d \in tempDirs : t.dir = d.dir => t.by = d.by
    /\ \A d1 \in tempDirs, d2 \in tempDirs : d1.dir = d2.dir => d1.by = d2.by

\* a call whose push git rejected is Errored
RejectedPushErrors ==
    \A c \in CallIds :
        (HasEntry(c, <<"push", "failed">>) /\ calls[c].result.cause \in RejectionMessages) =>
            calls[c].pc = "Errored"

InitFlow == SyncIdle /\ DiffIdle /\ CopyIdle /\ RetryIdle /\ ScanIdle /\ FirstIdle /\ FlowInit /\ LastIdle /\ EndIdle

SpecFlow == InitFlow /\ [][FlowNext]_vars

\* every call in flight goes on once the git call or the delay it awaits is over
SpecFlowLive == InitFlow /\ [][FlowNext]_vars /\ \A c \in OneCall : WF_vars(CallStep(c))

\* two calls of one host on one workspace, interleaved
RaceNext ==
    \/ Command
    \/ AutoSyncTimer
    \/ RuleSaved
    \/ ClockTick
    \/ CleanupTimer
    \/ \E c \in CallIds : CallStep(c)

InitRace == SyncIdle /\ DiffIdle /\ CopyIdle /\ RetryIdle /\ ScanIdle /\ FirstIdle /\ RaceInit /\ LastIdle /\ EndIdle

SpecRace == InitRace /\ [][RaceNext]_vars

-----------------------------------------------------------------------------
(* Claims about ensureGitignore *)

Lines(content) == { content[i] : i \in 1..Len(content) }

\* a line of the Cursor rules section: its header, its two comments, the rule
\* that excludes the rules and the rules that allow a folder again
BelongsToSection(line) ==
    \/ line \in {HeaderLine, ExcludeComment, ExcludeAllLine, AllowComment}
    \/ /\ Len(line) >= 3
       /\ SubSeq(line, 1, 3) = <<"!", CursorRulesDir, "/">>

\* a line of the user's own
IsOwnLine(line) == line # <<>> /\ (\E i \in 1..Len(line) : line[i] # " ") /\ ~BelongsToSection(line)

\* the user's own lines, each once, in the order of their first occurrence
RECURSIVE OwnLines(_, _)
OwnLines(content, seen) ==
    IF content = <<>> THEN seen
    ELSE OwnLines(Tail(content),
                  IF IsOwnLine(Head(content)) /\ Head(content) \notin Lines(seen)
                  THEN Append(seen, Head(content)) ELSE seen)

IsBlankLine(line) == \A i \in 1..Len(line) : line[i] = " "

\* a blank line stands between the user's lines above and the section
SeparatedAbove(content) ==
    \E i \in 3..Len(content) :
        /\ BelongsToSection(content[i])
        /\ \A j \in 1..(i - 1) : ~BelongsToSection(content[j])
        /\ IsBlankLine(content[i - 1])
        /\ IsOwnLine(content[i - 2])

\* a blank line stands between the section and the user's lines below
SeparatedBelow(content) ==
    \E i \in 1..(Len(content) - 2) :
        /\ BelongsToSection(content[i])
        /\ \A j \in (i + 1)..Len(content) : ~BelongsToSection(content[j])
        /\ IsBlankLine(content[i + 1])
        /\ IsOwnLine(content[i + 2])

HasSection(content) == \E i \in 1..Len(content) : BelongsToSection(content[i])

KeepsOwnLines == OwnLines(gOut, <<>>) = OwnLines(gContent, <<>>)

KeepsSeparators ==
    HasSection(gContent) =>
        /\ HeaderLine \in Lines(gOut)
        /\ SeparatedAbove(gContent) => SeparatedAbove(gOut)
        /\ SeparatedBelow(gContent) => SeparatedBelow(gOut)

AllowsEveryPattern ==
    \A k \in 1..Len(gPatterns) :
        /\ <<"!", CursorRulesDir, "/", gPatterns[k], "/">> \in Lines(gOut)
        /\ <<"!", CursorRulesDir, "/", gPatterns[k], "/**">> \in Lines(gOut)

\* C24: for every existing .gitignore, after ensureGitignore every line of the
\* user's own is still present in the same relative order, the header and the
\* blank lines that separate the sections are present after an update, and
\* every pattern of the exclusion list has its two allow rules in the file
C24_KeepsUserContent ==
    (gpc = "written" /\ gExists) =>
        KeepsOwnLines /\ KeepsSeparators /\ AllowsEveryPattern

InitIgnore ==
    SyncIdle /\ DiffIdle /\ CopyIdle /\ RetryIdle /\ ScanIdle /\ FirstIdle /\ FlowIdle
    /\ IgnoreInit /\ ResolveIdle /\ EndIdle

SpecIgnore == InitIgnore /\ [][EnsureGitignore]_vars

-----------------------------------------------------------------------------
(* Claims about safeFirstSync *)

StructureOnly ==
    /\ zRun.called = "none"
    /\ zDirExists
    /\ zResult.outcome = "returned"
    /\ zResult.stats = [added |-> 0, modified |-> 0, deleted |-> 0, total |-> 0]

ConflictsSurfaced ==
    /\ zRun.called = "none"
    /\ zResult.outcome = "thrown"
    /\ zResult.conflicts = zInfo.conflicts

BothSides == zInfo.hasLocalRules /\ zInfo.hasRemoteRules

LocalSideOnly == zInfo.hasLocalRules /\ ~zInfo.hasRemoteRules

RemoteSideOnly == ~zInfo.hasLocalRules /\ zInfo.hasRemoteRules

\* C21: safeFirstSync applies one strategy chosen from the assessment and the
\* options: on a first sync it only creates the local rule directory and returns
\* all-zero stats; with local-first it calls syncRules, with remote-first it
\* calls pullRules, otherwise it calls neither and throws the conflicts
C21_StrategyApplied ==
    zpc = "done" =>
        /\ zInfo.isFirstSync => StructureOnly
        /\ (~zInfo.isFirstSync /\ zOptions.mergeStrategy = "local-first")
               => zRun.called = "syncRules"
        /\ (~zInfo.isFirstSync /\ zOptions.mergeStrategy = "remote-first")
               => zRun.called = "pullRules"
        /\ (~zInfo.isFirstSync /\ zOptions.mergeStrategy = "manual")
               => ConflictsSurfaced

\* C21, amended: the strategy decides only when both sides hold rules; when
\* only the local side holds rules safeFirstSync calls syncRules and when only
\* the remote side does it calls pullRules, whatever the strategy
C21_StrategyAmended ==
    zpc = "done" =>
        /\ zInfo.isFirstSync => StructureOnly
        /\ (BothSides /\ zOptions.mergeStrategy = "local-first")
               => zRun.called = "syncRules"
        /\ (BothSides /\ zOptions.mergeStrategy = "remote-first")
               => zRun.called = "pullRules"
        /\ (BothSides /\ zOptions.mergeStrategy = "manual") => ConflictsSurfaced
        /\ LocalSideOnly => zRun.called = "syncRules"
        /\ RemoteSideOnly => zRun.called = "pullRules"

C21_Witness ==
    /\ zpc = "done"
    /\ LocalSideOnly
    /\ zOptions.mergeStrategy = "remote-first"
    /\ zRun.called = "syncRules"

InitResolve ==
    SyncIdle /\ DiffIdle /\ CopyIdle /\ RetryIdle /\ ScanIdle /\ FirstIdle /\ FlowIdle
    /\ IgnoreIdle /\ ResolveInit /\ EndIdle

SpecResolve == InitResolve /\ [][SafeFirstSync]_vars

-----------------------------------------------------------------------------
(* Claims about the effect of a call on the two trees *)

RemovedFromRemote == (DOMAIN remoteAtStart) \ (DOMAIN remote)

\* C31: in a sync or push call whose local FingerprintMap is not empty and
\* that ends successfully, every path of toDelete is absent from the remote
\* tree after the call, and the deleted count of the returned stats is the
\* number of files the call removed from the remote.
C31_DeletionsPropagate ==
    (pc = "done" /\ op \in {"sync", "push"} /\ DOMAIN localFiles # {}) =>
        /\ \A i \in 1..Len(toDelete) : toDelete[i] \notin DOMAIN remote
        /\ stats.deleted = Cardinality(RemovedFromRemote)

\* the rule files of the workspace, by their path relative to the rule root
LocalRuleFiles(disk) ==
    LET root == WorkspaceRoot \o DefaultRulesPath
    IN  [p \in { SubSeq(q, Len(root) + 1, Len(q)) :
                   q \in { r \in DOMAIN disk : IsPrefix(root, r) } } |-> disk[root \o p]]

Written(before, after) ==
    { q \in (DOMAIN before) \cup (DOMAIN after) :
        \/ q \notin DOMAIN before
        \/ q \notin DOMAIN after
        \/ before[q] # after[q] }

InTemporaryClone(q) == Len(q) >= 2 /\ q[1] = <<"tmp">>

\* C32: across any sequence of sync and push calls, successful or failed, the
\* local rule tree is the one present before the calls, and every file a step
\* of a call writes or removes lies in the temporary clone or is the workspace
\* .gitignore.
C32_LocalTreeUntouched ==
    /\ [](kpc # "off" => LocalRuleFiles(kDisk) = kBefore)
    /\ [][kpc # "off" =>
            \A q \in Written(kDisk, kDisk') :
                InTemporaryClone(q) \/ q = Append(WorkspaceRoot, <<"", "gitignore">>)]_vars

\* a second call has copied a changed rule file into its clone after the
\* first call had ended, and the workspace .gitignore was written
C32_Witness ==
    /\ kCalls = 2
    /\ kpc = "committing"
    /\ kBefore # EmptyTree
    /\ Append(WorkspaceRoot, <<"", "gitignore">>) \in DOMAIN kDisk
    /\ \E q \in DOMAIN kDisk : InTemporaryClone(q) /\ q[Len(q)] = <<"a", "md">>

InitDisk ==
    SyncIdle /\ DiffIdle /\ CopyIdle /\ RetryIdle /\ ScanIdle /\ FirstIdle /\ FlowIdle
    /\ LastIdle /\ DiskInit /\ ConvIdle /\ BackupIdle

SpecDisk == InitDisk /\ [][DiskNext]_vars

\* C33: no step of a pull call removes a local file, a local file without a
\* counterpart in the clone keeps its content, and the stats of a pull have
\* modified = 0 and deleted = 0.
C33_PullAdditive ==
    /\ [][op = "pull" =>
            \A p \in DOMAIN local :
                /\ p \in DOMAIN local'
                /\ p \notin DOMAIN clone => local'[p] = local[p]]_vars
    /\ [](op = "pull" => stats.modified = 0 /\ stats.deleted = 0)

\* a finished pull into a workspace that holds a global rule file the
\* repository does not have, next to a file that was pulled
C33_Witness ==
    /\ pc = "done"
    /\ op = "pull"
    /\ stats.added >= 1
    /\ \E p \in DOMAIN local :
          /\ p \notin DOMAIN clone
          /\ ~ SeqIncludes(config.excludePatterns, p[1])
    /\ \E p \in DOMAIN clone : p \in DOMAIN local /\ local[p] = clone[p]

-----------------------------------------------------------------------------
(* Claims about a pull followed by a sync *)

SyncableKeys(tree, fromWs) == DOMAIN GetAllFilesWithHash(tree, fromWs, vPatterns)

OnlyLocalBeforePull ==
    SyncableKeys(vBefore, DefaultRulesPath)
        \ SyncableKeys(vRemote, TempDirFromWorkspace \o DefaultRulesPath)

\* C34: a syncRules that follows a successful pullRules, with no local edit
\* and no remote change in between, reports modified = 0 and deleted = 0, and
\* its added count is the number of syncable files that existed only locally
\* before the pull.
C34_PullThenSyncConverges ==
    vpc = "synced" =>
        /\ vStats.modified = 0
        /\ vStats.deleted = 0
        /\ vStats.added = Cardinality(OnlyLocalBeforePull)

InitConv ==
    SyncIdle /\ DiffIdle /\ CopyIdle /\ RetryIdle /\ ScanIdle /\ FirstIdle /\ FlowIdle
    /\ LastIdle /\ DiskIdle /\ ConvInit /\ BackupIdle

SpecConv == InitConv /\ [][ConvNext]_vars

-----------------------------------------------------------------------------
(* Claims about the bounds of one withRetry run *)

Invocations == Len(rLog)

Succeeded(i) == rLog[i] = <<"ok">>

NoError == <<0, <<>>>>

\* C35: in one withRetry run the operation is never invoked more than
\* maxAttempts times, it is invoked at least once whenever maxAttempts >= 1, it
\* is never invoked again after an invocation succeeded, and the run returns
\* the value of the first successful invocation; a run with maxAttempts <= 0
\* ends with an error that is a defined error.
C35_AttemptBounds ==
    /\ rpc # "idle" =>
          /\ Invocations <= (IF rcfg.maxAttempts >= 0 THEN rcfg.maxAttempts ELSE 0)
          /\ \A i \in 1..(Invocations - 1) : ~ Succeeded(i)
    /\ (rpc \in {"returned", "thrown"} /\ rcfg.maxAttempts >= 1) => Invocations >= 1
    /\ rpc = "returned" => (Invocations >= 1 /\ Succeeded(Invocations))
    /\ (rpc \in {"returned", "thrown"} /\ rcfg.maxAttempts <= 0) =>
          (rpc = "thrown" /\ rThrown # NoError)

-----------------------------------------------------------------------------
\* Claims about the commit of one call

\* the places of the log where the step was run
EntriesOf(c, step) == { j \in 1..Len(LogOf(c)) : LogOf(c)[j][1] = step }

\* the add left something staged before the place j of the log
StagedBefore(c, j) == \E i \in 1..(j - 1) : LogOf(c)[i] = <<"add", "ok">>

\* C36: a sync or push call invokes commit at most once, also when the push is
\* retried; commit, pull and push are invoked only if the add left a non-empty
\* staged set; with an empty staged set the call neither commits nor pushes
\* and still returns its stats.
C36_CommitAtMostOnce ==
    \A c \in CallIds :
        IsSyncOrPush(c) =>
            /\ Cardinality(EntriesOf(c, "commit")) <= 1
            /\ \A j \in EntriesOf(c, "commit") \cup EntriesOf(c, "pull") \cup EntriesOf(c, "push") :
                   StagedBefore(c, j)
            /\ HasEntry(c, <<"add", "nothing">>) =>
                   /\ EntriesOf(c, "commit") \cup EntriesOf(c, "pull") \cup EntriesOf(c, "push") = {}
                   /\ ~ calls[c].pushed
                   /\ calls[c].pc \in {"CleaningUp", "Done"}
                   /\ calls[c].pc = "Done" => calls[c].result = OkResult

\* a push call whose push was retried and went through, after its one commit
C36_Witness ==
    \E c \in CallIds :
        /\ calls[c].kind = "push"
        /\ HasEntry(c, <<"add", "ok">>)
        /\ HasEntry(c, <<"push", "retry">>)
        /\ HasEntry(c, <<"push", "ok">>)
        /\ Cardinality(EntriesOf(c, "commit")) = 1
        /\ calls[c].pc = "Done"

-----------------------------------------------------------------------------
\* Claims about the temporary clone of a call that has ended

\* the call has a timer pending for its clone, or had one that has run
CleanupArranged(c) ==
    \/ \E t \in timers : t.by = c /\ t.dir = calls[c].tempDir
    \/ HasEntry(c, <<"schedule", "ok">>)

\* C37: no call that has ended in Done or in Errored leaves the temporary
\* clone it created without a pending or completed cleanup.
C37_CleanupAlwaysScheduled ==
    \A c \in CallIds :
        (calls[c].pc \in Terminal /\ HasEntry(c, <<"clone", "ok">>)) => CleanupArranged(c)

-----------------------------------------------------------------------------
\* Claims about the scanner and the map builder on one tree

\* the files of the entries getSyncableRules returned, relative to the rule root
SyncableFiles(rules) == UNION { rules[i].files : i \in 1..Len(rules) }

\* the keys of the local map of sync and push
LocalMapKeys(tree, patterns) == DOMAIN GetAllFilesWithHash(tree, DefaultRulesPath, patterns)

\* C38: for every local rule tree and exclusion list the key set of the local
\* map built by sync and push equals the set of files of the entries
\* getSyncableRules returns for the same tree.
C38_ScannerAgreesWithMap ==
    spc = "scanned" => LocalMapKeys(sTree, sPatterns) = SyncableFiles(sSyncable)

-----------------------------------------------------------------------------
\* Claims about an assessment whose clone failed

\* C39: checkFirstSyncStatus never raises on a failed clone: it returns a
\* FirstSyncInfo with hasRemoteRules false, remoteRulesCount 0 and no
\* conflicts, its local fields computed from the local tree; and in every
\* FirstSyncInfo it returns, conflicts is non-empty only if hasLocalRules and
\* hasRemoteRules are both true.
C39_FailedCloneAssessed ==
    apc \notin {"idle", "ready"} =>
        /\ apc = "assessed"
        /\ ~ aCloned =>
              /\ ~ aInfo.hasRemoteRules
              /\ aInfo.remoteRulesCount = 0
              /\ aInfo.conflicts = <<>>
              /\ aInfo.hasLocalRules = (DOMAIN aLocal # {})
              /\ aInfo.localRulesCount = Cardinality(DOMAIN aLocal)
              /\ aInfo.isFirstSync = (DOMAIN aLocal = {})
        /\ aInfo.conflicts # <<>> => (aInfo.hasLocalRules /\ aInfo.hasRemoteRules)

\* the clone failed although both sides hold a file of the same name
C39_Witness ==
    /\ apc = "assessed"
    /\ ~ aCloned
    /\ PathCoreA \in DOMAIN aLocal
    /\ PathCoreA \in DOMAIN aRemote
    /\ aInfo.hasLocalRules
    /\ aInfo.localRulesCount >= 2

-----------------------------------------------------------------------------
\* Claims about the backup of safeFirstSync

RuleRoot == WorkspaceRoot \o bPath

\* the steps that can change the local tree or the repository
MutatingSteps == {"mkdir", "syncRules", "pullRules"}

BackupWanted == bOptions.createBackup /\ bBefore # EmptyTree

StepTaken(step) == \E j \in 1..Len(bSteps) : bSteps[j] = step

\* the files on disk below the rule root that belong to the backup
ScannedBackupFiles == { q \in DOMAIN bDisk : IsPrefix(RuleRoot, q) /\ IsPrefix(BackupPath, q) }

\* C40: in safeFirstSync with createBackup set and local rules present the
\* backup copy of the local rule tree is complete before any step that can
\* change the local tree or the repository, and the backup is written outside
\* the rule root, so that it is never scanned or synced.
C40_BackupBeforeMutation ==
    BackupWanted =>
        /\ \A j \in 1..Len(bSteps) :
              bSteps[j] \in MutatingSteps => \E i \in 1..(j - 1) : bSteps[i] = "backup"
        /\ ~ StepTaken("backup") =>
              (Below(bDisk, RuleRoot) = bBefore /\ Below(bDisk, BackupPath) = EmptyTree)
        /\ StepTaken("backup") =>
              /\ bpc \in {"backedUp", "done", "thrown"}
              /\ Below(bDisk, BackupPath) = bBefore
              /\ ~ IsPrefix(RuleRoot, BackupPath)
              /\ ScannedBackupFiles = {}
              /\ \A p \in DOMAIN bRemote : ~ IsPrefix(BackupPath, RuleRoot \o p)

InitBackup ==
    SyncIdle /\ DiffIdle /\ CopyIdle /\ RetryIdle /\ ScanIdle /\ FirstIdle /\ FlowIdle
    /\ LastIdle /\ DiskIdle /\ ConvIdle /\ BackupInit

SpecBackup == InitBackup /\ [][BackupNext]_vars

====
